---- MODULE Spec2Model ----
(***************************************************************************)
(* Model of electricitylci/olca_jsonld_writer.py: write() builds olca      *)
(* root entities from process descriptions into a root-entity dictionary   *)
(* (the Registry, `spec_map`), and _save_to_json merges that dictionary    *)
(* with the JSON-LD zip archive found at the same path and re-zips it.     *)
(***************************************************************************)
EXTENDS Integers, Sequences, FiniteSets, TLC

(***************************************************************************)
(* Bounds of the model                                                     *)
(***************************************************************************)
\* number of write() calls in one behaviour
MaxWrites == 2
\* number of entries of the mapping handed to one write() call
MaxBatch == 2
\* length of the ids/objs lists handed to _update_data on its own
MaxLen == 2

(***************************************************************************)
(* Strings: a Python str is a sequence of one-character strings; None is   *)
(* the one-element sequence NoneStr, which no str contains.                *)
(***************************************************************************)
NoneStr == <<"~None">>
EmptyStr == <<>>

Range(s) == {s[i] : i \in 1..Len(s)}

\* the value of F at x, with x worked out once (a local variable of the code)
Bind(x, F(_)) == CHOOSE y \in {F(v) : v \in {x}} : TRUE

\* str(arg): None prints as 'None', a str is itself
Str(x) == IF x = NoneStr THEN <<"N", "o", "n", "e">> ELSE x

\* str.lower() on the characters of the model's alphabet
LowerChar(c) ==
  CASE c = "A" -> "a"
    [] c = "B" -> "b"
    [] c = "N" -> "n"
    [] c = "W" -> "w"
    [] OTHER -> c
Lower(s) == [i \in 1..Len(s) |-> LowerChar(s[i])]

\* str.strip(): drop leading and trailing blanks
RECURSIVE LStrip(_)
LStrip(s) == IF s # <<>> /\ Head(s) = " " THEN LStrip(Tail(s)) ELSE s
RECURSIVE RStrip(_)
RStrip(s) ==
  IF s # <<>> /\ s[Len(s)] = " " THEN RStrip(SubSeq(s, 1, Len(s) - 1)) ELSE s
Strip(s) == RStrip(LStrip(s))

\* '/'.join(parts)
RECURSIVE Join(_)
Join(parts) ==
  IF parts = <<>> THEN <<>>
  ELSE IF Len(parts) = 1 THEN parts[1]
  ELSE parts[1] \o <<"/">> \o Join(Tail(parts))

(***************************************************************************)
(* Identifiers.  k = "none" is None, k = "uuid" a canonical UUID string of *)
(* version v whose remaining bits are h, k = "str" any other string.       *)
(***************************************************************************)
NoneId == [k |-> "none", v |-> 0, h |-> <<>>]

\* a faulty _uid, not the code's: the path keeps its letter case
UidKeepsCase(args) ==
  [k |-> "uuid", v |-> 3, h |-> Join([i \in 1..Len(args) |-> Strip(Str(args[i]))])]
\* _uid(*args): uuid3 of the joined, stripped, lower-cased path (the hash is
\* taken to be collision free: the identifier is the path it was made from)
Uid(args) ==
  [k |-> "uuid", v |-> 3,
   h |-> Lower(Join([i \in 1..Len(args) |-> Strip(Str(args[i]))]))]

\* _uid_is_valid(uuid_str, version)
UidIsValid(u, version) == u.k = "uuid" /\ u.v = version

(***************************************************************************)
(* The root entity dictionary: entity type -> ids list and objs list.      *)
(* Of the 17 root entity types the writer only ever fills these eight; the *)
(* sequence keeps the key order of _root_entity_dict.                      *)
(***************************************************************************)
TypeOrder ==
  <<"Actor", "DQSystem", "Flow", "FlowProperty", "Location", "Process",
    "Source", "UnitGroup">>
Types == Range(TypeOrder)

RootEntityDict == [t \in Types |-> [ids |-> <<>>, objs |-> <<>>]]

\* a faulty store, not the code's: the new entity goes to the front of the lists
Append2Front(s, k, uid, obj) ==
  [s EXCEPT ![k] = [ids |-> <<uid>> \o s[k].ids, objs |-> <<obj>> \o s[k].objs]]
\* spec_map[k]['ids'].append(obj.id); spec_map[k]['objs'].append(obj)
Append2(s, k, uid, obj) ==
  [s EXCEPT ![k] = [ids |-> Append(s[k].ids, uid), objs |-> Append(s[k].objs, obj)]]

\* list.index(uid): position of the first occurrence
IndexOf(ids, uid) == CHOOSE i \in 1..Len(ids) : ids[i] = uid /\ \A j \in 1..(i - 1) : ids[j] # uid

InIds(s, k, uid) == uid \in Range(s[k].ids)
Stored(s, k, uid) == s[k].objs[IndexOf(s[k].ids, uid)]

(***************************************************************************)
(* Python dict (insertion ordered) as a sequence of <<key, value>> pairs   *)
(***************************************************************************)
DictKeys(d) == [i \in 1..Len(d) |-> d[i][1]]
DictVals(d) == [i \in 1..Len(d) |-> d[i][2]]

\* d[uid] = obj keeps the position of a key that is already there
DictSet(d, uid, obj) ==
  IF uid \in Range(DictKeys(d))
  THEN [i \in 1..Len(d) |-> IF d[i][1] = uid THEN <<uid, obj>> ELSE d[i]]
  ELSE Append(d, <<uid, obj>>)

\* d_cur.update(d_new)
RECURSIVE DictUpdate(_, _)
DictUpdate(d, n) ==
  IF n = <<>> THEN d ELSE DictUpdate(DictSet(d, n[1][1], n[1][2]), Tail(n))

\* _make_entity_dict(e_dict, e_key): an id without its object is skipped
RECURSIVE MakeEntityDictFrom(_, _, _)
MakeEntityDictFrom(ids, objs, i) ==
  IF i = 0 THEN <<>>
  ELSE IF i > Len(objs) THEN MakeEntityDictFrom(ids, objs, i - 1)
  ELSE DictSet(MakeEntityDictFrom(ids, objs, i - 1), ids[i], objs[i])
MakeEntityDict(e_dict, e_key) ==
  MakeEntityDictFrom(e_dict[e_key].ids, e_dict[e_key].objs, Len(e_dict[e_key].ids))

\* two faulty merges, not the code's: the existing entity wins a collision;
\* the new entries are appended without looking at the existing ones
MergedDictExistingWins(cur_data, new_data, k) ==
  DictUpdate(MakeEntityDict(new_data, k), MakeEntityDict(cur_data, k))
MergedDictAppendsAll(cur_data, new_data, k) ==
  MakeEntityDict(cur_data, k) \o MakeEntityDict(new_data, k)
\* the per-type body of _update_data's loop
MergedDict(cur_data, new_data, k) ==
  DictUpdate(MakeEntityDict(cur_data, k), MakeEntityDict(new_data, k))

\* _update_data(cur_data, new_data)
UpdateData(cur_data, new_data) ==
  [k \in Types |->
     [ids |-> DictKeys(MergedDict(cur_data, new_data, k)),
      objs |-> DictVals(MergedDict(cur_data, new_data, k))]]

(***************************************************************************)
(* The JSON-LD archive at file_path: a zip that holds, per entity type,    *)
(* the documents written to it in order.  A document is [id, obj, ok]; ok  *)
(* says that the document loads back into its class.  A zip that is not    *)
(* closed has no central directory (complete = FALSE).                     *)
(***************************************************************************)
NoDocs == [t \in Types |-> <<>>]
NoArchive == [exists |-> FALSE, complete |-> FALSE, docs |-> NoDocs]

\* ZipReader.ids_of(spec): the names in the class's folder, in zip order
IdsOf(arch, k) == [i \in 1..Len(arch.docs[k]) |-> arch.docs[k][i].id]

\* ZipReader.read(spec, rid): a name resolves to its last entry in the zip
LastDoc(docs, rid) ==
  docs[CHOOSE i \in 1..Len(docs) :
         docs[i].id = rid /\ \A j \in (i + 1)..Len(docs) : docs[j].id # rid]

\* a faulty reader, not the code's: only the first document of a type is read
ReadTypeFirstOnly(docs, entry, i) ==
  IF i >= 1 /\ docs[1].ok
  THEN [ids |-> Append(entry.ids, docs[1].id), objs |-> Append(entry.objs, docs[1].obj)]
  ELSE entry
\* a faulty reader, not the code's: the first document that does not load ends
\* the read of its type
ReadTypeStopsAtFailure(docs, entry, i) ==
  LET F[n \in 0..i] ==
        IF n = 0 THEN entry
        ELSE IF \E m \in 1..n : ~LastDoc(docs, docs[m].id).ok THEN F[n - 1]
        ELSE IF docs[n].id \in Range(F[n - 1].ids) THEN F[n - 1]
        ELSE [ids |-> Append(F[n - 1].ids, docs[n].id),
              objs |-> Append(F[n - 1].objs, LastDoc(docs, docs[n].id).obj)]
  IN F[i]
\* the `for rid in r_ids` loop of _read_jsonld for one type, full mode
ReadType(docs, entry, i) ==
  LET F[n \in 0..i] ==
        IF n = 0 THEN entry
        ELSE IF docs[n].id \in Range(F[n - 1].ids) THEN F[n - 1]
        ELSE IF LastDoc(docs, docs[n].id).ok
             THEN [ids |-> Append(F[n - 1].ids, docs[n].id),
                   objs |-> Append(F[n - 1].objs, LastDoc(docs, docs[n].id).obj)]
             ELSE F[n - 1]
  IN F[i]

\* a faulty reader, not the code's: it opens any file that is there
ReadNeverRaises(arch) == FALSE
\* zipio.ZipReader(json_file) in _read_jsonld raises on a file that is there
\* and is no complete zip (zipfile.BadZipFile, no OSError)
ReadRaises(arch) == arch.exists /\ ~arch.complete

\* _read_jsonld(json_file, root_dict, id_only=False) on a readable archive
ReadJsonld(arch, root_dict) ==
  [k \in Types |-> ReadType(arch.docs[k], root_dict[k], Len(arch.docs[k]))]

(***************************************************************************)
(* Unit groups and flow properties of the Federal Elementary Flow List     *)
(* (_read_fedefl) and the olca_schema.units catalogue                      *)
(***************************************************************************)
UuidV4(tag) == [k |-> "uuid", v |-> 4, h |-> <<tag>>]
MassId == UuidV4("mass")
EnergyId == UuidV4("energy")
FedUnitGroups == <<[id |-> UuidV4("ug-mass"), name |-> <<"ug-mass">>]>>
FedFlowProperties == <<[id |-> MassId, name |-> <<"Mass">>]>>

\* _add_unit_groups(spec_map)
AddUnitGroups(s) ==
  [s EXCEPT
     !["UnitGroup"] = [ids |-> s["UnitGroup"].ids \o [i \in 1..Len(FedUnitGroups) |-> FedUnitGroups[i].id],
                       objs |-> s["UnitGroup"].objs \o FedUnitGroups],
     !["FlowProperty"] = [ids |-> s["FlowProperty"].ids \o [i \in 1..Len(FedFlowProperties) |-> FedFlowProperties[i].id],
                          objs |-> s["FlowProperty"].objs \o FedFlowProperties]]

\* a faulty start, not the code's: a new archive starts from the bare dictionary
InitRootEntitiesBare(arch) ==
  IF arch.exists THEN ReadJsonld(arch, RootEntityDict) ELSE RootEntityDict
\* _init_root_entities(json_file)
InitRootEntities(arch) ==
  IF arch.exists THEN ReadJsonld(arch, RootEntityDict)
  ELSE AddUnitGroups(RootEntityDict)

\* olca_schema.units.property_ref(unit_name): the flow property of a unit
PropertyRef(unit_name) ==
  CASE unit_name = <<"k", "g">> -> MassId
    [] unit_name = <<"M", "J">> -> EnergyId
    [] OTHER -> NoneId

\* _flow_property(unit_name, dict_s): the stored FlowProperty or None
FlowProperty(unit_name, s) ==
  IF PropertyRef(unit_name) # NoneId /\ InIds(s, "FlowProperty", PropertyRef(unit_name))
  THEN Stored(s, "FlowProperty", PropertyRef(unit_name)).id
  ELSE NoneId

(***************************************************************************)
(* The graph builder.  Inputs are the loosely typed dictionaries of the    *)
(* caller: a record with t = "dict" is a dict, any other t is a value that *)
(* is not a dict (t = "none": None, t = "absent": the key is missing).     *)
(* Every builder returns its result with the updated dictionary s; err     *)
(* says that the call raised an exception.                                 *)
(***************************************************************************)
NoneRef == [id |-> NoneId, name |-> NoneStr, category |-> NoneStr]
NoneObj == [t |-> "none", id |-> NoneId]
NoneEx == [t |-> "none"]

\* _val(d, key, default=x) on a value that was looked up: None gives the default
ValOr(x, d) == IF x = NoneStr THEN d ELSE x

\* "waste" in category_path.lower()
Contains(s, sub) ==
  \E i \in 1..(Len(s) - Len(sub) + 1) : SubSeq(s, i, i + Len(sub) - 1) = sub
\* a faulty test, not the code's: the category is not lower-cased first
IsWasteExactCase(category_path) == Contains(category_path, <<"w", "a", "s", "t", "e">>)
IsWaste(category_path) == Contains(Lower(category_path), <<"w", "a", "s", "t", "e">>)

\* str() of an identifier and of a location dict: an injective rendering
StrOfId(u) == <<"#", u.k>> \o u.h
StrOfLocation(loc) ==
  <<"{">> \o Str(loc.name) \o <<",">> \o StrOfId(loc.id) \o <<",">> \o Str(loc.lat) \o <<"}">>

\* a faulty _location, not the code's: the stored locations are searched for
\* the supplied identifier, as _flow does
LocationChecksSupplied(loc, s) ==
  LET code == IF loc.t \in {"str", "dict"} THEN loc.name ELSE EmptyStr
      given == IF loc.t = "dict" THEN loc.id ELSE NoneId
      uid == IF UidIsValid(given, 3) THEN given ELSE Uid(<<<<"modeltype.location">>, code>>)
  IN IF code = NoneStr \/ code = EmptyStr THEN [ref |-> NoneRef, s |-> s]
     ELSE IF InIds(s, "Location", given)
     THEN [ref |-> [id |-> given, name |-> Stored(s, "Location", given).name, category |-> NoneStr],
           s |-> s]
     ELSE [ref |-> [id |-> uid, name |-> code, category |-> NoneStr],
           s |-> Append2(s, "Location", uid,
                         [id |-> uid, name |-> code,
                          lat |-> IF loc.t = "dict" THEN loc.lat ELSE NoneStr])]
\* _location(dict_d, dict_s)
Location(loc, s) ==
  LET code == IF loc.t \in {"str", "dict"} THEN loc.name ELSE EmptyStr
      given == IF loc.t = "dict" THEN loc.id ELSE NoneId
      uid == IF UidIsValid(given, 3) THEN given ELSE Uid(<<<<"modeltype.location">>, code>>)
  IN IF code = NoneStr \/ code = EmptyStr THEN [ref |-> NoneRef, s |-> s]
     ELSE IF InIds(s, "Location", uid)
     THEN [ref |-> [id |-> uid, name |-> Stored(s, "Location", uid).name, category |-> NoneStr],
           s |-> s]
     ELSE [ref |-> [id |-> uid, name |-> code, category |-> NoneStr],
           s |-> Append2(s, "Location", uid,
                         [id |-> uid, name |-> code,
                          lat |-> IF loc.t = "dict" THEN loc.lat ELSE NoneStr])]

\* _actor(name, dict_s): the early return gives None where the callers unpack
\* a pair, which raises TypeError
Actor(name, s) ==
  LET uid == Uid(<<<<"modeltype.actor">>, name>>)
  IN IF name = NoneStr \/ name = EmptyStr THEN [ref |-> NoneRef, s |-> s, err |-> TRUE]
     ELSE IF InIds(s, "Actor", uid)
     THEN [ref |-> [id |-> uid, name |-> Stored(s, "Actor", uid).name, category |-> NoneStr],
           s |-> s, err |-> FALSE]
     ELSE [ref |-> [id |-> uid, name |-> name, category |-> NoneStr],
           s |-> Append2(s, "Actor", uid, [id |-> uid, name |-> name]), err |-> FALSE]

\* _source(src_data, dict_s)
Source(src, s) ==
  LET category == ValOr(src.Category, EmptyStr)
      uid == Uid(<<<<"modeltype.source">>, category, src.Name>>)
  IN IF src.t # "dict" \/ src.Name = NoneStr \/ src.Name = EmptyStr
     THEN [ref |-> NoneRef, s |-> s]
     ELSE IF InIds(s, "Source", uid)
     THEN [ref |-> [id |-> uid, name |-> Stored(s, "Source", uid).name,
                    category |-> Stored(s, "Source", uid).category],
           s |-> s]
     ELSE [ref |-> [id |-> uid, name |-> src.Name, category |-> category],
           s |-> Append2(s, "Source", uid,
                         [id |-> uid, name |-> src.Name, category |-> category])]

\* _source_list(s_data, dict_s): missing references are skipped
RECURSIVE SourceListFrom(_, _, _)
SourceListFrom(srcs, s, n) ==
  IF n = 0 THEN [refs |-> <<>>, s |-> s]
  ELSE Bind(SourceListFrom(srcs, s, n - 1), LAMBDA r :
       Bind(Source(srcs[n], r.s), LAMBDA x :
         [refs |-> IF x.ref = NoneRef THEN r.refs ELSE Append(r.refs, x.ref.id),
          s |-> x.s]))
SourceList(srcs, s) == SourceListFrom(srcs, s, Len(srcs))

\* the four _actor calls of _process_doc, in order; the first that raises ends them
RECURSIVE ActorsFrom(_, _, _)
ActorsFrom(names, s, n) ==
  IF n = 0 THEN [refs |-> <<>>, s |-> s, err |-> FALSE]
  ELSE Bind(ActorsFrom(names, s, n - 1), LAMBDA r :
       IF r.err THEN r
       ELSE Bind(Actor(names[n], r.s), LAMBDA x :
              [refs |-> Append(r.refs, x.ref.id), s |-> x.s, err |-> x.err]))

\* _process_doc(dict_d, dict_s)
NoDocObj == [actors |-> <<>>, publication |-> NoneId, sources |-> <<>>]
ProcessDoc(doc, s) ==
  IF doc.t # "dict" THEN [doc |-> NoDocObj, s |-> s, err |-> FALSE]
  ELSE Bind(ActorsFrom(doc.actors, s, Len(doc.actors)), LAMBDA a :
       IF a.err THEN [doc |-> NoDocObj, s |-> a.s, err |-> TRUE]
       ELSE Bind(Source(doc.publication, a.s), LAMBDA pub :
            Bind(SourceList(doc.sources, pub.s), LAMBDA srcs :
              [doc |-> [actors |-> a.refs, publication |-> pub.ref.id,
                        sources |-> srcs.refs],
               s |-> srcs.s, err |-> FALSE])))

\* _find_dq(dict_d, dict_key): the process dictionary first, then its
\* processDocumentation
FindDq(d, dq_type) ==
  LET own == IF dq_type = "dqSystem" THEN d.dqSystem ELSE d.exchangeDqSystem
  IN IF own.t = "dict" THEN own
     ELSE IF d.doc.t = "dict"
     THEN (IF dq_type = "dqSystem" THEN d.doc.dqSystem ELSE d.doc.exchangeDqSystem)
     ELSE own

\* _dq_system(dict_d, dict_s, dq_type): the existence check is made on the
\* supplied identifier, before an invalid one is replaced by the derived one
DqSystem(d, s, dq_type) ==
  LET dq == FindDq(d, dq_type)
      dq_name == ValOr(dq.name, <<"n", "o", "n", "e">>)
      uid == IF UidIsValid(dq.id, 4) THEN dq.id
             ELSE Uid(<<<<"modeltype.dq_system">>, <<dq_type>>, dq_name>>)
  IN IF dq.t # "dict" THEN [ref |-> NoneId, s |-> s]
     ELSE IF InIds(s, "DQSystem", dq.id) THEN [ref |-> dq.id, s |-> s]
     ELSE [ref |-> uid, s |-> Append2(s, "DQSystem", uid, [id |-> uid, name |-> dq_name])]

\* _flow_type(f_type)
FlowType(f_type) ==
  IF f_type \in {"ELEMENTARY_FLOW", "PRODUCT_FLOW", "WASTE_FLOW"} THEN f_type ELSE "None"

\* _flow(dict_d, flowprop, dict_s): the existence check is made on the supplied
\* identifier, before an invalid one is replaced by the derived one;
\* olca_schema.new_flow takes the reference of flowprop and raises on None
Flow(f, flowprop, s) ==
  LET category_path == ValOr(f.category, EmptyStr)
      uid == IF UidIsValid(f.id, 3) \/ UidIsValid(f.id, 4) THEN f.id
             ELSE Uid(<<<<"modeltype.flow">>, category_path, f.name>>)
      f_type == IF IsWaste(category_path) THEN "WASTE_FLOW"
                ELSE FlowType(IF f.flowType = "None" THEN "ELEMENTARY_FLOW" ELSE f.flowType)
      flow == [id |-> uid, name |-> f.name, category |-> category_path,
               flowType |-> f_type, prop |-> flowprop]
  IN IF f.t # "dict" THEN [ref |-> NoneRef, s |-> s, err |-> FALSE]
     ELSE IF InIds(s, "Flow", f.id)
     THEN [ref |-> [id |-> f.id, name |-> Stored(s, "Flow", f.id).name,
                    category |-> Stored(s, "Flow", f.id).category],
           s |-> s, err |-> FALSE]
     ELSE IF flowprop = NoneId THEN [ref |-> NoneRef, s |-> s, err |-> TRUE]
     ELSE [ref |-> [id |-> uid, name |-> f.name, category |-> category_path],
           s |-> Append2(s, "Flow", uid, flow), err |-> FALSE]

\* _unit(unit_name): olca_schema.units.unit_ref, None for an unknown unit
Unit(unit_name) == IF PropertyRef(unit_name) = NoneId THEN NoneStr ELSE unit_name

\* A value of an uncertainty record: t = "num" a float or int, "nan" the float
\* nan, "str" a str with the characters v, "none" None or a missing key,
\* "other" anything else
NoValue == [t |-> "none", v |-> <<>>]
NoUncertaintyIn ==
  [t |-> "none", distributionType |-> NoneStr, geomMean |-> NoValue, geomSd |-> NoValue]
NoUncertainty == [t |-> "none", geomMean |-> NoValue, geomSd |-> NoValue]
LogNormal == <<"Logarithmic Normal Distribution">>

\* float(x) of a str: a decimal numeral, 'nan', or ValueError
FloatRaises(x) ==
  x.t = "str" /\ x.v # <<"n", "a", "n">>
    /\ (x.v = <<>> \/ \E n \in 1..Len(x.v) : x.v[n] \notin {"0", "1", "2", "."})
Float(x) ==
  IF x.t # "str" THEN x
  ELSE IF x.v = <<"n", "a", "n">> THEN [t |-> "nan", v |-> <<>>]
  ELSE [t |-> "num", v |-> x.v]

\* _isnum(n)
IsNum(n) == n.t = "num"

\* _uncertainty(dict_d): [u, err]
Uncertainty(d) ==
  IF d.t # "dict" THEN [u |-> NoUncertainty, err |-> FALSE]
  ELSE IF d.distributionType # LogNormal THEN [u |-> NoUncertainty, err |-> FALSE]
  ELSE IF FloatRaises(d.geomMean) \/ FloatRaises(d.geomSd)
  THEN [u |-> NoUncertainty, err |-> TRUE]
  ELSE IF ~IsNum(Float(d.geomMean)) \/ ~IsNum(Float(d.geomSd))
  THEN [u |-> NoUncertainty, err |-> FALSE]
  ELSE [u |-> [t |-> "log-normal", geomMean |-> Float(d.geomMean), geomSd |-> Float(d.geomSd)],
        err |-> FALSE]

\* the fields _val reads from an exchange entry that is not a dict: all defaults
NoFlowIn == [t |-> "none", id |-> NoneId, name |-> NoneStr, category |-> NoneStr, flowType |-> "None"]
NoProcessIn == [t |-> "none"]
DefaultExchangeIn ==
  [t |-> "other", qref |-> FALSE, unit |-> NoneStr, flow |-> NoFlowIn,
   provider |-> NoProcessIn, amount |-> <<"0", ".", "0">>, uncertainty |-> NoUncertaintyIn]

\* _find_ref_exchange(p): the last exchange flagged as quantitative reference
FindRefExchange(p) ==
  IF \E i \in 1..Len(p.exchanges) : p.exchanges[i].qref
  THEN p.exchanges[CHOOSE i \in 1..Len(p.exchanges) :
                     p.exchanges[i].qref /\ \A j \in (i + 1)..Len(p.exchanges) : ~p.exchanges[j].qref]
  ELSE NoneEx

\* location_code = _val(dict_d, 'location', 'name', default=''): the value of
\* the first of the two keys that is present, the dict or str as it is
LocationCode(d) ==
  CASE d.location.t = "absent" -> ValOr(d.name, EmptyStr)
    [] d.location.t = "str" -> d.location.name
    [] d.location.t = "dict" -> StrOfLocation(d.location)
    [] OTHER -> EmptyStr

\* the identifier _process settles on: the supplied '@id' as it is, or _uid
ProcessUid(d) ==
  IF d.id # NoneId THEN d.id
  ELSE Uid(<<<<"modeltype.process">>, ValOr(d.category, EmptyStr), LocationCode(d), d.name>>)

RECURSIVE Process(_, _)
RECURSIVE Exchange(_, _)
RECURSIVE ExchangeListFrom(_, _, _)

\* _exchange(dict_d, dict_s)
Exchange(e, s) ==
  IF e.t = "none" THEN [ex |-> NoneEx, s |-> s, err |-> FALSE]
  ELSE
    LET x == IF e.t = "dict" THEN e ELSE DefaultExchangeIn
        unit_name == ValOr(x.unit, <<"k", "g">>)
        f_prop == FlowProperty(unit_name, s)
    IN Bind(Flow(x.flow, f_prop, s), LAMBDA fl :
       IF fl.err \/ Uncertainty(x.uncertainty).err
       THEN [ex |-> NoneEx, s |-> fl.s, err |-> TRUE]
       ELSE Bind(Process(x.provider, fl.s), LAMBDA pr :
            IF pr.err THEN [ex |-> NoneEx, s |-> pr.s, err |-> TRUE]
            ELSE [ex |-> [t |-> "ex", internal_id |-> 0, qref |-> x.qref,
                          amount |-> x.amount, unit |-> Unit(unit_name),
                          flow_property |-> f_prop, flow |-> fl.ref,
                          uncertainty |-> Uncertainty(x.uncertainty).u,
                          provider |-> pr.p.id],
                  s |-> pr.s, err |-> FALSE]))

\* two faulty passes, not the code's: the internal ids start at 0; the first
\* flagged exchange stays the reference
ExchangeListAddFromZero(r, x) ==
  IF x.err THEN [list |-> r.list, s |-> x.s, q_ref |-> r.q_ref, err |-> TRUE]
  ELSE IF x.ex = NoneEx THEN [list |-> r.list, s |-> x.s, q_ref |-> r.q_ref, err |-> FALSE]
  ELSE [list |-> Append(r.list, [x.ex EXCEPT !.internal_id = Len(r.list)]),
        s |-> x.s,
        q_ref |-> IF x.ex.qref THEN [x.ex EXCEPT !.internal_id = Len(r.list)] ELSE r.q_ref,
        err |-> FALSE]
ExchangeListAddFirstWins(r, x) ==
  IF x.err THEN [list |-> r.list, s |-> x.s, q_ref |-> r.q_ref, err |-> TRUE]
  ELSE IF x.ex = NoneEx THEN [list |-> r.list, s |-> x.s, q_ref |-> r.q_ref, err |-> FALSE]
  ELSE [list |-> Append(r.list, [x.ex EXCEPT !.internal_id = Len(r.list) + 1]),
        s |-> x.s,
        q_ref |-> IF x.ex.qref /\ r.q_ref = NoneEx
                  THEN [x.ex EXCEPT !.internal_id = Len(r.list) + 1] ELSE r.q_ref,
        err |-> FALSE]
\* one pass of the loop of _exchange_list: r is the state before the entry,
\* x what _exchange returned for it
ExchangeListAdd(r, x) ==
  IF x.err THEN [list |-> r.list, s |-> x.s, q_ref |-> r.q_ref, err |-> TRUE]
  ELSE IF x.ex = NoneEx THEN [list |-> r.list, s |-> x.s, q_ref |-> r.q_ref, err |-> FALSE]
  ELSE [list |-> Append(r.list, [x.ex EXCEPT !.internal_id = Len(r.list) + 1]),
        s |-> x.s,
        q_ref |-> IF x.ex.qref
                  THEN [x.ex EXCEPT !.internal_id = Len(r.list) + 1] ELSE r.q_ref,
        err |-> FALSE]

\* _exchange_list(dict_d, dict_s), its loop over the first n entries
ExchangeListFrom(exs, s, n) ==
  IF n = 0 THEN [list |-> <<>>, s |-> s, q_ref |-> NoneEx, err |-> FALSE]
  ELSE Bind(ExchangeListFrom(exs, s, n - 1), LAMBDA r :
       IF r.err THEN r
       ELSE Bind(Exchange(exs[n], r.s), LAMBDA x : ExchangeListAdd(r, x)))

ExchangeList(d, s) == ExchangeListFrom(d.exchanges, s, Len(d.exchanges))

\* _process(dict_d, dict_s): the branch that creates a new Process
NewProcess(d, s, uid) ==
  Bind(Location(IF d.location.t \in {"str", "dict"} THEN d.location
                ELSE [d.location EXCEPT !.t = "none"], s), LAMBDA loc :
  Bind(ProcessDoc(d.doc, loc.s), LAMBDA doc :
  IF doc.err THEN [p |-> NoneObj, s |-> doc.s, e |-> NoneEx, err |-> TRUE]
  ELSE
  Bind(DqSystem(d, doc.s, "dqSystem"), LAMBDA dq1 :
  Bind(DqSystem(d, dq1.s, "exchangeDqSystem"), LAMBDA dq2 :
  Bind(ExchangeList(d, dq2.s), LAMBDA exl :
  IF exl.err THEN [p |-> NoneObj, s |-> exl.s, e |-> NoneEx, err |-> TRUE]
  ELSE [p |-> [t |-> "Process", id |-> uid, name |-> d.name,
               category |-> ValOr(d.category, EmptyStr),
               description |-> d.description, location |-> loc.ref.id,
               doc |-> doc.doc, dq_system |-> dq1.ref,
               exchange_dq_system |-> dq2.ref, exchanges |-> exl.list],
        s |-> exl.s, e |-> exl.q_ref, err |-> FALSE])))))

\* a faulty _process, not the code's: it builds the Process whether stored or not
ProcessAlwaysNew(d, s) ==
  IF d.t # "dict" THEN [p |-> NoneObj, s |-> s, e |-> NoneEx, err |-> FALSE]
  ELSE NewProcess(d, s, ProcessUid(d))
\* _process(dict_d, dict_s)
Process(d, s) ==
  IF d.t # "dict" THEN [p |-> NoneObj, s |-> s, e |-> NoneEx, err |-> FALSE]
  ELSE IF InIds(s, "Process", ProcessUid(d))
  THEN [p |-> Stored(s, "Process", ProcessUid(d)), s |-> s,
        e |-> FindRefExchange(Stored(s, "Process", ProcessUid(d))), err |-> FALSE]
  ELSE NewProcess(d, s, ProcessUid(d))

(***************************************************************************)
(* Inputs: the process descriptions a caller hands to write(), and the     *)
(* archives that may lie at file_path before the first call                *)
(***************************************************************************)
NoLocationIn == [t |-> "absent", name |-> NoneStr, id |-> NoneId, lat |-> NoneStr]
NoSourceIn == [t |-> "none", Name |-> NoneStr, Category |-> NoneStr]
NoDqIn == [t |-> "none", id |-> NoneId, name |-> NoneStr]
NoDocIn ==
  [t |-> "none", actors |-> <<>>, publication |-> NoSourceIn, sources |-> <<>>,
   dqSystem |-> NoDqIn, exchangeDqSystem |-> NoDqIn]

FlowIn(name, category) ==
  [t |-> "dict", id |-> NoneId, name |-> name, category |-> category, flowType |-> "None"]
ExchangeIn(flow, qref, provider) ==
  [t |-> "dict", qref |-> qref, unit |-> <<"k", "g">>, flow |-> flow,
   provider |-> provider, amount |-> <<"1">>, uncertainty |-> NoUncertaintyIn]
ProcessIn(name, location, description, doc, dq, exchanges) ==
  [t |-> "dict", id |-> NoneId, name |-> name, category |-> NoneStr,
   location |-> location, description |-> description, doc |-> doc,
   dqSystem |-> dq, exchangeDqSystem |-> dq, exchanges |-> exchanges]

LocU == [t |-> "str", name |-> <<"u">>, id |-> NoneId, lat |-> NoneStr]
LocUDict == [t |-> "dict", name |-> <<"u">>, id |-> NoneId, lat |-> <<"1">>]
DqBadId == [t |-> "dict", id |-> [k |-> "str", v |-> 0, h |-> <<"x">>], name |-> <<"q">>]
DocFull ==
  [t |-> "dict", actors |-> <<<<"r">>, <<"r">>, <<"g">>, <<"r">>>>,
   publication |-> [t |-> "dict", Name |-> <<"s">>, Category |-> NoneStr],
   sources |-> <<[t |-> "dict", Name |-> <<"s">>, Category |-> NoneStr], NoSourceIn>>,
   dqSystem |-> NoDqIn, exchangeDqSystem |-> NoDqIn]
DocNoReviewer == [DocFull EXCEPT !.actors = <<NoneStr, <<"r">>, <<"g">>, <<"r">>>>]

FlowF == FlowIn(<<"f">>, <<"a", "i", "r">>)
FlowG == FlowIn(<<"g">>, <<"W", "a", "s", "t", "e">>)

\* the catalogue: key -> process description
DescA ==
  ProcessIn(<<"a">>, LocU, <<"o", "l", "d">>, NoDocIn, NoDqIn,
            <<ExchangeIn(FlowF, TRUE, NoProcessIn), NoneEx,
              ExchangeIn(FlowF, TRUE, NoProcessIn)>>)
DescA2 ==
  ProcessIn(<<" ", "A">>, LocU, <<"n", "e", "w">>, NoDocIn, NoDqIn,
            <<ExchangeIn(FlowG, FALSE, NoProcessIn)>>)
DescB ==
  ProcessIn(<<"b">>, LocUDict, NoneStr, DocFull, DqBadId,
            <<ExchangeIn(FlowG, FALSE, DescA), DefaultExchangeIn,
              ExchangeIn(FlowF, TRUE, NoProcessIn),
              ExchangeIn(FlowG, FALSE, NoProcessIn)>>)
DescBad ==
  ProcessIn(<<"c">>, NoLocationIn, NoneStr, DocNoReviewer, NoDqIn, <<>>)
\* an entry of the mapping that is not a dict
DescNotDict == [ProcessIn(<<"d">>, NoLocationIn, NoneStr, NoDocIn, NoDqIn, <<>>) EXCEPT !.t = "str"]
Descs == <<DescA, DescA2, DescB, DescBad, DescNotDict>>

\* the batches: the mappings write() may be handed, as sequences of distinct keys
RECURSIVE SeqsOfLen(_, _)
SeqsOfLen(S, n) ==
  IF n = 0 THEN {<<>>}
  ELSE {Append(q, x) : q \in SeqsOfLen(S, n - 1), x \in S}
Injective(q) == \A a, b \in 1..Len(q) : q[a] = q[b] => a = b
Batches ==
  {q \in UNION {SeqsOfLen(1..Len(Descs), n) : n \in 0..MaxBatch} : Injective(q)}

Doc(obj, ok) == [id |-> obj.id, obj |-> obj, ok |-> ok]
DocsOf(objs) == [i \in 1..Len(objs) |-> Doc(objs[i], TRUE)]

\* a Process and its Flow as an earlier version of the writer stored them
LegacyFlow ==
  [id |-> Uid(<<<<"modeltype.flow">>, <<"a", "i", "r">>, <<"f">>>>), name |-> <<"f">>,
   category |-> <<"a", "i", "r">>, flowType |-> "ELEMENTARY_FLOW", prop |-> MassId]
LegacyProcess ==
  [t |-> "Process", id |-> ProcessUid(DescA), name |-> <<"a">>, category |-> EmptyStr,
   description |-> <<"l", "e", "g">>, location |-> NoneId,
   doc |-> [actors |-> <<>>, publication |-> NoneId, sources |-> <<>>],
   dq_system |-> NoneId, exchange_dq_system |-> NoneId, exchanges |-> <<>>]
LegacyOther == [LegacyProcess EXCEPT !.id = Uid(<<<<"modeltype.process">>, <<"z">>>>)]

ArchiveClean ==
  [exists |-> TRUE, complete |-> TRUE,
   docs |-> [NoDocs EXCEPT !["UnitGroup"] = DocsOf(FedUnitGroups),
                           !["FlowProperty"] = DocsOf(FedFlowProperties),
                           !["Flow"] = <<Doc(LegacyFlow, TRUE)>>,
                           !["Process"] = <<Doc(LegacyProcess, TRUE)>>]]
\* repeated .json entries and a document that does not load
ArchiveRepeats ==
  [exists |-> TRUE, complete |-> TRUE,
   docs |-> [NoDocs EXCEPT !["UnitGroup"] = DocsOf(FedUnitGroups),
                           !["FlowProperty"] = DocsOf(FedFlowProperties),
                           !["Flow"] = <<Doc(LegacyFlow, TRUE), Doc(LegacyFlow, TRUE)>>,
                           !["Process"] = <<Doc(LegacyOther, FALSE), Doc(LegacyProcess, TRUE),
                                            Doc(LegacyProcess, TRUE)>>]]
\* a file that is no complete zip: truncated, or left behind by a writer that
\* did not close it
ArchiveCorrupt == [ArchiveClean EXCEPT !.complete = FALSE]
InitArchives == {NoArchive, ArchiveClean, ArchiveRepeats, ArchiveCorrupt}

(***************************************************************************)
(* State                                                                   *)
(***************************************************************************)
VARIABLES
  archive,    \* the file at file_path
  pc,         \* where the running write() call stands; "idle" between calls
  processes,  \* the caller's mapping, updated in place: <<[d, uuid, q_ref, q_unit]>>
  i,          \* the entry of `processes` the loop of write() is at
  spec_map,   \* the root entity dictionary of the running call
  c_data,     \* _save_to_json: the dictionary read from the existing archive
  handed,     \* _save_to_json: its argument e_dict as write() handed it over
  w,          \* _save_to_json: the next object the ZipWriter loop writes
  nwrites,    \* write() calls started so far
  pre,        \* the archive as it was when the running call started
  prev,       \* the last call: the descriptions handed to it, how it ended, and
              \* the number of calls that saved so far
  again,      \* the running call was handed the input of the call before it
  readback,   \* a dictionary read back from the archive with _read_jsonld
  xl,         \* _exchange_list on its own: [exs, n, r], r the state of its loop
  kept,       \* history: the <<type, id>> found in the archive after a call that saved
  call        \* one call of a function on its own: [f, in, out, done]

vars ==
  <<archive, pc, processes, i, spec_map, c_data, handed, w, nwrites, pre, prev,
    again, readback, xl, kept, call>>

NoPrev == [batch |-> <<>>, ended |-> "none", saved |-> 0]
NoCall == [f |-> "none", done |-> FALSE]
NoXl == [exs |-> <<>>, n |-> 0,
         r |-> [list |-> <<>>, s |-> RootEntityDict, q_ref |-> NoneEx, err |-> FALSE]]

\* an entry of the caller's mapping: the description as first handed in (d), and
\* what write() put on it: 'uuid' and '@id', and the reference flow and unit
Entry(d) == [d |-> d, uuid |-> NoneId, q_ref |-> NoneRef, q_unit |-> NoneStr]

\* the entry as _process reads it: update(p.to_dict()) has set its '@id'
Described(entry) ==
  IF entry.uuid = NoneId THEN entry.d ELSE [entry.d EXCEPT !.id = entry.uuid]

\* the objects the ZipWriter loop of _save_to_json writes, in its order
RECURSIVE WriteListFrom(_, _)
WriteListFrom(e_dict, n) ==
  IF n = 0 THEN <<>>
  ELSE WriteListFrom(e_dict, n - 1) \o
       [j \in 1..Len(e_dict[TypeOrder[n]].objs) |->
          [type |-> TypeOrder[n], obj |-> e_dict[TypeOrder[n]].objs[j]]]
\* a faulty writer loop, not the code's: the last object is not written
WriteListDropsLast(e_dict) ==
  SubSeq(WriteListFrom(e_dict, Len(TypeOrder)), 1, Len(WriteListFrom(e_dict, Len(TypeOrder))) - 1)
WriteList(e_dict) == WriteListFrom(e_dict, Len(TypeOrder))

\* the <<type, id>> of the documents of an archive
IdPairs(arch) ==
  UNION {{<<k, arch.docs[k][n].id>> : n \in 1..Len(arch.docs[k])} : k \in Types}

Init ==
  /\ archive \in InitArchives
  /\ pc = "idle"
  /\ processes = <<>>
  /\ i = 1
  /\ spec_map = RootEntityDict
  /\ c_data = RootEntityDict
  /\ handed = RootEntityDict
  /\ w = 1
  /\ nwrites = 0
  /\ pre = archive
  /\ prev = NoPrev
  /\ again = FALSE
  /\ readback = RootEntityDict
  /\ xl = NoXl
  /\ kept = {}
  /\ call = NoCall

(***************************************************************************)
(* write(processes, file_path)                                             *)
(***************************************************************************)
\* write() up to its loop: spec_map = _init_root_entities(file_path)
Enter(batch) ==
  /\ pc = "idle"
  /\ nwrites < MaxWrites
  /\ ~ReadRaises(archive)
  /\ nwrites' = nwrites + 1
  /\ processes' = batch
  /\ i' = 1
  /\ spec_map' = InitRootEntities(archive)
  /\ pre' = archive
  /\ again' = (prev.ended = "saved" /\ [n \in 1..Len(batch) |-> batch[n].d] = prev.batch)
  /\ c_data' = RootEntityDict
  /\ handed' = RootEntityDict
  /\ pc' = IF batch = <<>> THEN "save" ELSE "build"
  /\ UNCHANGED <<archive, w, prev, readback, xl, kept, call>>

\* a call with a mapping of fresh descriptions
WriteStart ==
  \E q \in Batches : Enter([n \in 1..Len(q) |-> Entry(Descs[q[n]])])

\* a call on a path whose file cannot be read as an archive: the exception of
\* _read_jsonld leaves _init_root_entities and write() before the loop
WriteOnCorrupt ==
  /\ pc = "idle"
  /\ nwrites < MaxWrites
  /\ ReadRaises(archive)
  /\ \E q \in Batches : processes' = [n \in 1..Len(q) |-> Entry(Descs[q[n]])]
  /\ nwrites' = nwrites + 1
  /\ pre' = archive
  /\ prev' = [batch |-> <<>>, ended |-> "unreadable", saved |-> prev.saved]
  /\ again' = FALSE
  /\ i' = 1
  /\ UNCHANGED <<archive, pc, spec_map, c_data, handed, w, readback, xl, kept, call>>

\* a call with the mapping the last call returned
WriteAgain ==
  /\ prev.ended = "saved"
  /\ processes # <<>>
  /\ Enter(processes)

\* one iteration of the loop of write(): _process, the two appends, the update
\* of the caller's entry
AppendProcess(s, r) == Append2(r.s, "Process", r.p.id, r.p)

\* a faulty copy, not the code's: the unit name is never copied
AnnotateFlowOnly(entry, r) ==
  [d |-> entry.d,
   uuid |-> r.p.id,
   q_ref |-> IF r.e = NoneEx \/ r.e.flow = NoneRef THEN entry.q_ref ELSE r.e.flow,
   q_unit |-> entry.q_unit]
\* e.flow.name raises on an exchange without flow and e.unit.name on one
\* without unit; the except clause drops what was not yet copied
Annotate(entry, r) ==
  [d |-> entry.d,
   uuid |-> r.p.id,
   q_ref |-> IF r.e = NoneEx \/ r.e.flow = NoneRef THEN entry.q_ref ELSE r.e.flow,
   q_unit |-> IF r.e = NoneEx \/ r.e.flow = NoneRef \/ r.e.unit = NoneStr
              THEN entry.q_unit ELSE r.e.unit]

BuildStep ==
  /\ pc = "build"
  /\ \E r \in {Process(Described(processes[i]), spec_map)} :
        /\ ~r.err
        /\ r.p # NoneObj
        /\ spec_map' = AppendProcess(spec_map, r)
        /\ processes' = [processes EXCEPT ![i] = Annotate(processes[i], r)]
  /\ i' = i + 1
  /\ pc' = IF i = Len(processes) THEN "save" ELSE "build"
  /\ UNCHANGED <<archive, c_data, handed, w, nwrites, pre, prev, again, readback, xl, kept, call>>

\* an exception raised inside the loop leaves write(), i at the entry that raised
\* it (_process raised, or returned None and p.id raised); nothing is saved
BuildRaises ==
  /\ pc = "build"
  /\ \E r \in {Process(Described(processes[i]), spec_map)} : r.err \/ r.p = NoneObj
  /\ pc' = "idle"
  /\ prev' = [batch |-> <<>>, ended |-> "raised", saved |-> prev.saved]
  /\ spec_map' = RootEntityDict
  /\ UNCHANGED <<archive, processes, i, c_data, handed, w, nwrites, pre, again, readback, xl, kept, call>>

(***************************************************************************)
(* _save_to_json(json_file, e_dict)                                        *)
(***************************************************************************)
\* a faulty test, not the code's: write() saves whatever to_save says
ToSaveAlways == TRUE
\* `if to_save:` of write(); a call that does not say so saves
ToSave == call.f = "write" => call.to_save

\* try: c_data = _read_jsonld(json_file, _root_entity_dict())
SaveReadFound ==
  /\ pc = "save"
  /\ ToSave
  /\ archive.exists /\ archive.complete
  /\ c_data' = ReadJsonld(archive, RootEntityDict)
  /\ handed' = spec_map
  /\ pc' = "remove"
  /\ UNCHANGED <<archive, processes, i, spec_map, w, nwrites, pre, prev, again, readback, xl, kept, call>>

\* except OSError: c_data = _root_entity_dict()
SaveReadMissing ==
  /\ pc = "save"
  /\ ToSave
  /\ ~archive.exists
  /\ c_data' = RootEntityDict
  /\ handed' = spec_map
  /\ pc' = "merge"
  /\ UNCHANGED <<archive, processes, i, spec_map, w, nwrites, pre, prev, again, readback, xl, kept, call>>

\* else: os.remove(json_file)
SaveRemove ==
  /\ pc = "remove"
  /\ archive' = NoArchive
  /\ pc' = "merge"
  /\ UNCHANGED <<processes, i, spec_map, c_data, handed, w, nwrites, pre, prev, again, readback, xl, kept, call>>

\* finally: e_dict = _update_data(c_data, e_dict)
SaveMerge ==
  /\ pc = "merge"
  /\ spec_map' = UpdateData(c_data, spec_map)
  /\ pc' = "open"
  /\ UNCHANGED <<archive, processes, i, c_data, handed, w, nwrites, pre, prev, again, readback, xl, kept, call>>

\* with zipio.ZipWriter(json_file) as writer: the zip file is created
SaveOpen ==
  /\ pc = "open"
  /\ archive' = [exists |-> TRUE, complete |-> FALSE, docs |-> NoDocs]
  /\ w' = 1
  /\ pc' = "write"
  /\ UNCHANGED <<processes, i, spec_map, c_data, handed, nwrites, pre, prev, again, readback, xl, kept, call>>

\* a faulty writer, not the code's: what it writes does not load again
WrittenDocUnreadable(obj) == Doc(obj, FALSE)
\* writer.write(k_obj)
WrittenDoc(obj) == Doc(obj, TRUE)

SaveWriteEntity ==
  /\ pc = "write"
  /\ w <= Len(WriteList(spec_map))
  /\ LET x == WriteList(spec_map)[w]
     IN archive' = [archive EXCEPT !.docs[x.type] = Append(@, WrittenDoc(x.obj))]
  /\ w' = w + 1
  /\ UNCHANGED <<pc, processes, i, spec_map, c_data, handed, nwrites, pre, prev, again, readback, xl, kept, call>>

\* the with block ends: the zip is closed, write() returns the mapping
SaveClose ==
  /\ pc = "write"
  /\ w > Len(WriteList(spec_map))
  /\ archive' = [archive EXCEPT !.complete = TRUE]
  /\ pc' = "idle"
  /\ prev' = [batch |-> [n \in 1..Len(processes) |-> processes[n].d], ended |-> "saved",
               saved |-> prev.saved + 1]
  /\ spec_map' = RootEntityDict
  /\ w' = 1
  /\ i' = 1
  /\ kept' = kept \cup IdPairs(archive)
  /\ UNCHANGED <<processes, c_data, handed, nwrites, pre, again, readback, xl, call>>

Next ==
  \/ WriteStart
  \/ WriteOnCorrupt
  \/ WriteAgain
  \/ BuildStep
  \/ BuildRaises
  \/ SaveReadFound
  \/ SaveReadMissing
  \/ SaveRemove
  \/ SaveMerge
  \/ SaveOpen
  \/ SaveWriteEntity
  \/ SaveClose

Spec == Init /\ [][Next]_vars

(***************************************************************************)
(* _update_data on its own: the two dictionaries are drawn from small      *)
(* lists; the current data is what _read_jsonld returns (no identifier     *)
(* twice), the new data may list an identifier more than once              *)
(***************************************************************************)
SmallIds == {Uid(<<<<"x">>>>), Uid(<<<<"y">>>>)}
SmallObjs == {[id |-> u, val |-> v] : u \in SmallIds, v \in {"old", "new"}}
ListsUpTo(S, n) == UNION {SeqsOfLen(S, m) : m \in 0..n}
NoRepeat(q) == \A a, b \in 1..Len(q) : q[a].id = q[b].id => a = b
ListedIn(k, objs) ==
  [RootEntityDict EXCEPT ![k] = [ids |-> [n \in 1..Len(objs) |-> objs[n].id], objs |-> objs]]
SmallFlows == {<<>>, <<[id |-> Uid(<<<<"x">>>>), val |-> "flow"]>>}
FreshDicts ==
  {[ListedIn("Process", q) EXCEPT !["Flow"] = ListedIn("Flow", f)["Flow"]] :
     q \in ListsUpTo(SmallObjs, MaxLen), f \in SmallFlows}
ReadDicts == {e \in FreshDicts : NoRepeat(e["Process"].objs)}

InitMerge ==
  /\ archive = NoArchive
  /\ pc = "merge"
  /\ processes = <<>>
  /\ i = 1
  /\ spec_map \in FreshDicts
  /\ c_data \in ReadDicts
  /\ handed = spec_map
  /\ w = 1
  /\ nwrites = 0
  /\ pre = NoArchive
  /\ prev = NoPrev
  /\ again = FALSE
  /\ readback = RootEntityDict
  /\ xl = NoXl
  /\ kept = {}
  /\ call = NoCall

SpecMerge == InitMerge /\ [][SaveMerge]_vars

(***************************************************************************)
(* _save_to_json to a path without archive, then _read_jsonld of that path *)
(***************************************************************************)
InitRoundTrip ==
  /\ archive = NoArchive
  /\ pc = "save"
  /\ processes = <<>>
  /\ i = 1
  /\ spec_map \in FreshDicts
  /\ c_data = RootEntityDict
  /\ handed = RootEntityDict
  /\ w = 1
  /\ nwrites = 0
  /\ pre = NoArchive
  /\ prev = NoPrev
  /\ again = FALSE
  /\ readback = RootEntityDict
  /\ xl = NoXl
  /\ kept = {}
  /\ call = NoCall

\* _read_jsonld(json_file, _root_entity_dict())
ReadBack ==
  /\ pc = "idle"
  /\ archive.exists /\ archive.complete
  /\ readback' = ReadJsonld(archive, RootEntityDict)
  /\ pc' = "read"
  /\ UNCHANGED <<archive, processes, i, spec_map, c_data, handed, w, nwrites, pre, prev,
                 again, xl, kept, call>>

NextRoundTrip ==
  \/ SaveReadMissing
  \/ SaveMerge
  \/ SaveOpen
  \/ SaveWriteEntity
  \/ SaveClose
  \/ ReadBack

SpecRoundTrip == InitRoundTrip /\ [][NextRoundTrip]_vars

(***************************************************************************)
(* _exchange_list on its own, one entry of the list per step, and the copy *)
(* of its quantitative reference onto the caller's entry by write()        *)
(***************************************************************************)
MaxExchanges == 3

ExchangeKinds ==
  {NoneEx, DefaultExchangeIn,
   ExchangeIn(FlowF, TRUE, NoProcessIn), ExchangeIn(FlowG, TRUE, NoProcessIn),
   ExchangeIn(FlowF, FALSE, NoProcessIn), ExchangeIn(NoFlowIn, TRUE, NoProcessIn),
   [ExchangeIn(FlowG, FALSE, NoProcessIn) EXCEPT !.amount = <<"x">>]}

InitExchangeList ==
  /\ archive = NoArchive
  /\ pc = "exchanges"
  /\ \E exs \in ListsUpTo(ExchangeKinds, MaxExchanges) :
       /\ xl = [exs |-> exs, n |-> 0,
                r |-> [list |-> <<>>, s |-> AddUnitGroups(RootEntityDict),
                       q_ref |-> NoneEx, err |-> FALSE]]
       /\ processes = <<Entry(ProcessIn(<<"a">>, NoLocationIn, NoneStr, NoDocIn, NoDqIn, exs))>>
  /\ i = 1
  /\ spec_map = RootEntityDict
  /\ c_data = RootEntityDict
  /\ handed = RootEntityDict
  /\ w = 1
  /\ nwrites = 0
  /\ pre = NoArchive
  /\ prev = NoPrev
  /\ again = FALSE
  /\ readback = RootEntityDict
  /\ kept = {}
  /\ call = NoCall

\* one pass of `for e in _val(dict_d, 'exchanges', default=[])`
ExchangeListStep ==
  /\ pc = "exchanges"
  /\ xl.n < Len(xl.exs)
  /\ ~xl.r.err
  /\ xl' = [xl EXCEPT !.n = @ + 1,
                      !.r = Bind(Exchange(xl.exs[xl.n + 1], xl.r.s),
                                 LAMBDA x : ExchangeListAdd(xl.r, x))]
  /\ UNCHANGED <<archive, pc, processes, i, spec_map, c_data, handed, w, nwrites, pre,
                 prev, again, readback, kept, call>>

\* _exchange_list returns; write() copies the reference onto the caller's entry
ExchangeListReturn ==
  /\ pc = "exchanges"
  /\ xl.n = Len(xl.exs)
  /\ processes' = <<Annotate(processes[1],
                             [p |-> [id |-> ProcessUid(processes[1].d)], e |-> xl.r.q_ref])>>
  /\ pc' = "returned"
  /\ UNCHANGED <<archive, i, spec_map, c_data, handed, w, nwrites, pre, prev, again,
                 readback, xl, kept, call>>

NextExchangeList == ExchangeListStep \/ ExchangeListReturn

SpecExchangeList == InitExchangeList /\ [][NextExchangeList]_vars

(***************************************************************************)
(* Properties                                                              *)
(***************************************************************************)
NoDup(q) == \A a, b \in 1..Len(q) : q[a] = q[b] => a = b
Count(q, x) == Cardinality({n \in 1..Len(q) : q[n] = x})
IdSets(e_dict) == [k \in Types |-> Range(e_dict[k].ids)]
ArchiveIdSets(arch) == [k \in Types |-> Range(IdsOf(arch, k))]
Saved == pc = "idle" /\ prev.ended = "saved"

\* C1: while a call replaces an existing archive, file_path holds at every
\* step either the complete previous archive or a complete new one
C1_PreviousOrMergedArchive ==
  (pc # "idle" /\ pre.exists) => (archive = pre \/ (archive.exists /\ archive.complete))

\* C2: between calls, every (type, identifier) that was in the archive after
\* some call that saved is in the archive still
C2_ArchivedIdsPersist == pc = "idle" => kept \subseteq IdPairs(archive)

\* a second saved call whose batch does not name a Process the first archived
C2_LaterBatchElsewhere ==
  /\ Saved
  /\ prev.saved >= 2
  /\ \E x \in IdPairs(pre) :
       /\ x[1] = "Process"
       /\ \A n \in 1..Len(processes) : processes[n].uuid # x[2]
  /\ \E n \in 1..Len(processes) : <<"Process", processes[n].uuid>> \notin IdPairs(pre)

\* C3: at every point of a build no identifier is listed twice under a type
\* of the root entity dictionary
C3_NoIdentifierTwice == \A k \in Types : NoDup(spec_map[k].ids)

\* C4: when two entries of the mapping resolve to the same derived Process
\* identifier, the dictionary the loop of write() ends with lists it once
C4_OneProcessPerDerivedId ==
  pc = "save" =>
    \A n, m \in 1..Len(processes) :
      (n # m /\ processes[n].uuid = processes[m].uuid
         /\ processes[n].d.id = NoneId /\ processes[m].d.id = NoneId
         /\ ProcessUid(processes[n].d) = processes[n].uuid)
      => Count(spec_map["Process"].ids, processes[n].uuid) = 1

\* the reference merge: the existing entries in order, replaced in place by
\* the fresh entity of the same identifier, then the fresh entries that
\* existing does not have, in fresh order
FreshOf(fresh, uid) == fresh[CHOOSE n \in 1..Len(fresh) : fresh[n].id = uid]
RefMerge(existing, fresh) ==
  [n \in 1..Len(existing) |->
     IF \E m \in 1..Len(fresh) : fresh[m].id = existing[n].id
     THEN FreshOf(fresh, existing[n].id) ELSE existing[n]]
  \o SelectSeq(fresh, LAMBDA x : \A n \in 1..Len(existing) : existing[n].id # x.id)
\* a list with repeated identifiers as one entry per identifier: at the place
\* of the first, the entity of the last
LastOf(q, uid) ==
  q[CHOOSE n \in 1..Len(q) : q[n].id = uid /\ \A m \in (n + 1)..Len(q) : q[m].id # uid]
RECURSIVE Collapse(_)
Collapse(q) ==
  IF q = <<>> THEN <<>>
  ELSE IF \E n \in 1..(Len(q) - 1) : q[n].id = q[Len(q)].id
       THEN Collapse(SubSeq(q, 1, Len(q) - 1))
       ELSE Append(Collapse(SubSeq(q, 1, Len(q) - 1)), q[Len(q)])
Collapsed(q) == [n \in 1..Len(Collapse(q)) |-> LastOf(q, Collapse(q)[n].id)]

\* C5: for every type _update_data returns the reference merge of the
\* existing list and the fresh list (a fresh list that repeats an identifier
\* counts as its one-entry-per-identifier form), its ids list parallel to it
C5_UpdateDataIsReferenceMerge ==
  pc = "open" =>
    \A k \in Types :
      /\ NoRepeat(handed[k].objs) => Collapsed(handed[k].objs) = handed[k].objs
      /\ spec_map[k].objs = RefMerge(c_data[k].objs, Collapsed(handed[k].objs))
      /\ spec_map[k].ids = [n \in 1..Len(spec_map[k].objs) |-> spec_map[k].objs[n].id]
      /\ \A x \in Range(c_data[k].ids) \cup Range(handed[k].ids) : x \in Range(spec_map[k].ids)

\* a merge where fresh overrides an existing entry, adds one and leaves one
C5_OverrideKeepAppend ==
  /\ pc = "open"
  /\ Len(c_data["Process"].objs) = 1
  /\ Len(handed["Process"].objs) = 2
  /\ handed["Process"].objs[2].id = c_data["Process"].objs[1].id
  /\ handed["Process"].objs[2].val # c_data["Process"].objs[1].val
  /\ handed["Process"].objs[1].id # c_data["Process"].objs[1].id
  /\ Len(c_data["Flow"].objs) = 1
  /\ handed["Flow"].objs = <<>>

\* C6: after a call that saved, the archived Process of an entry whose
\* identifier was archived before the call carries the entry's description
C6_NewValuesArchived ==
  Saved =>
    \A n \in 1..Len(processes) :
      (/\ <<"Process", processes[n].uuid>> \in IdPairs(pre)
       /\ \A m \in 1..Len(processes) : processes[m].uuid = processes[n].uuid => m = n)
      => \A m \in 1..Len(archive.docs["Process"]) :
           archive.docs["Process"][m].id = processes[n].uuid
             => archive.docs["Process"][m].obj.description = processes[n].d.description

\* C7: after the second of two calls with the same input the per-type sets
\* of identifiers in the archive are those after the first
C7_SecondWriteSameIds == (Saved /\ again) => ArchiveIdSets(archive) = ArchiveIdSets(pre)

C7_WroteTwice ==
  /\ Saved
  /\ again
  /\ Len(processes) = MaxBatch
  /\ Len(archive.docs["Process"]) >= 2

\* C8: what _read_jsonld reads from the archive _save_to_json wrote to an
\* empty path has, per type, the identifiers of the dictionary written
C8_RoundTripIds == pc = "read" => IdSets(readback) = IdSets(handed)

C8_ReadBackSome ==
  /\ pc = "read"
  /\ Len(handed["Process"].ids) = MaxLen
  /\ ~NoDup(handed["Process"].ids)
  /\ handed["Flow"].ids # <<>>

\* C9: after a call that saved, and after any call since, the archive holds
\* no two documents of one type with the same identifier
C9_OneDocumentPerId ==
  (pc = "idle" /\ prev.saved >= 1) => \A k \in Types : NoDup(IdsOf(archive, k))

\* saved from a dictionary that listed a Process twice, one archived before
C9_SavedFromRepeats ==
  /\ Saved
  /\ ~NoDup(handed["Process"].ids)
  /\ \E n \in 1..Len(processes) : <<"Process", processes[n].uuid>> \in IdPairs(pre)

\* the entries of an exchange list _exchange retains, and the flagged ones
Retained(exs) == {n \in 1..Len(exs) : exs[n].t # "none"}
Flagged(exs) == {n \in Retained(exs) : exs[n].t = "dict" /\ exs[n].qref}
LastFlagged(exs) == CHOOSE n \in Flagged(exs) : \A m \in Flagged(exs) : m <= n

\* C10: the reference exchange _exchange_list returns is the one built from
\* the last flagged entry that was retained, None exactly when no retained
\* entry is flagged; _find_ref_exchange finds the same one in the list, and
\* write() copies its flow onto the caller's entry
C10_LastFlaggedIsReference ==
  pc = "returned" =>
    /\ xl.r.q_ref = NoneEx <=> Flagged(xl.exs) = {}
    /\ FindRefExchange([exchanges |-> xl.r.list]) = xl.r.q_ref
    /\ Flagged(xl.exs) # {} =>
         /\ xl.r.q_ref.internal_id
              = Cardinality({n \in Retained(xl.exs) : n <= LastFlagged(xl.exs)})
         /\ xl.r.q_ref = xl.r.list[xl.r.q_ref.internal_id]
         /\ xl.r.q_ref.flow.name = xl.exs[LastFlagged(xl.exs)].flow.name
         /\ processes[1].q_ref = xl.r.q_ref.flow
    /\ Flagged(xl.exs) = {} => processes[1].q_ref = NoneRef

\* two flagged entries of different flows and a skipped one between them
C10_TwoFlagged ==
  /\ pc = "returned"
  /\ Len(xl.exs) = MaxExchanges
  /\ Flagged(xl.exs) = {1, Len(xl.exs)}
  /\ xl.exs[2].t = "none"
  /\ xl.exs[1].flow # xl.exs[Len(xl.exs)].flow
  /\ xl.exs[Len(xl.exs)].flow # NoFlowIn

\* C11: no Process in the dictionary of a build has more than one exchange
\* flagged as quantitative reference
C11_AtMostOneFlagged ==
  \A n \in 1..Len(spec_map["Process"].objs) :
    Cardinality({m \in 1..Len(spec_map["Process"].objs[n].exchanges) :
                   spec_map["Process"].objs[n].exchanges[m].qref}) <= 1

\* the input entry the n-th exchange of the list was built from
NthRetained(exs, n) ==
  CHOOSE m \in Retained(exs) : Cardinality({j \in Retained(exs) : j <= m}) = n
EntryOf(e) == IF e.t = "dict" THEN e ELSE DefaultExchangeIn

\* C12: after every pass of the loop the list holds one exchange per entry
\* that was not skipped, in input order, the n-th with internal id n
C12_DenseInternalIds ==
  pc \in {"exchanges", "returned"} =>
    /\ Len(xl.r.list) = Cardinality({m \in Retained(xl.exs) : m <= xl.n})
    /\ \A n \in 1..Len(xl.r.list) :
         /\ xl.r.list[n].internal_id = n
         /\ xl.r.list[n].qref = EntryOf(xl.exs[NthRetained(xl.exs, n)]).qref
         /\ xl.r.list[n].amount = EntryOf(xl.exs[NthRetained(xl.exs, n)]).amount
         /\ xl.r.list[n].flow.name = EntryOf(xl.exs[NthRetained(xl.exs, n)]).flow.name

\* a skipped entry between two that are kept
C12_SkippedBetween ==
  /\ pc = "returned"
  /\ Len(xl.exs) = MaxExchanges
  /\ xl.exs[1].t = "other"
  /\ xl.exs[2].t = "none"
  /\ xl.exs[Len(xl.exs)].t = "dict"
  /\ Len(xl.r.list) = Len(xl.exs) - 1

\* float(amount) works on the tokens of a decimal number
IsNumeral(a) == a # <<>> /\ \A n \in 1..Len(a) : a[n] \in {"0", "1", "2", "."}
\* an entry that is there but has no flow mapping or no amount that parses
Malformed(e) ==
  e.t # "none" /\ (e.t # "dict" \/ e.flow.t # "dict" \/ ~IsNumeral(e.amount))

\* C18: the list _exchange_list returns holds the entries that are well
\* formed, one exchange each, and nothing for a malformed entry
C18_MalformedSkipped ==
  pc = "returned" =>
    Len(xl.r.list) = Cardinality({m \in Retained(xl.exs) : ~Malformed(xl.exs[m])})

(***************************************************************************)
(* Functions called on their own: `call` holds the function, its input and *)
(* what it returned; the other variables stay as they are                  *)
(***************************************************************************)
Quiet ==
  /\ archive = NoArchive
  /\ processes = <<>>
  /\ i = 1
  /\ spec_map = RootEntityDict
  /\ c_data = RootEntityDict
  /\ handed = RootEntityDict
  /\ w = 1
  /\ nwrites = 0
  /\ pre = NoArchive
  /\ prev = NoPrev
  /\ again = FALSE
  /\ readback = RootEntityDict
  /\ xl = NoXl
  /\ kept = {}
Returns(out) ==
  /\ pc = "call"
  /\ ~call.done
  /\ call' = [call EXCEPT !.out = out, !.done = TRUE]
  /\ pc' = "returned"
  /\ UNCHANGED <<archive, processes, i, spec_map, c_data, handed, w, nwrites, pre, prev,
                 again, readback, xl, kept>>

\* length of a path segment handed to _uid
MaxSeg == 2
SegChars == {"a", "A", " "}
UidArgs ==
  {<<tag, seg>> : tag \in {<<"modeltype.flow">>, <<"modeltype.process">>},
                  seg \in ListsUpTo(SegChars, MaxSeg)}

InitUid ==
  /\ Quiet
  /\ pc = "call"
  /\ call \in {[f |-> "_uid", in |-> <<a, b>>, out |-> <<>>, done |-> FALSE] :
                 a \in UidArgs, b \in UidArgs}

\* two calls of _uid, one after the other
UidCalls ==
  /\ call.f = "_uid"
  /\ Returns(<<Uid(call.in[1]), Uid(call.in[2])>>)

SpecUid == InitUid /\ [][UidCalls]_vars

\* equal up to letter case and surrounding blanks
SameLetter(c, d) == c = d \/ {c, d} = {"a", "A"}
Core(seg) ==
  IF \A n \in 1..Len(seg) : seg[n] = " " THEN <<>>
  ELSE SubSeq(seg, CHOOSE n \in 1..Len(seg) : seg[n] # " " /\ \A m \in 1..(n - 1) : seg[m] = " ",
                   CHOOSE n \in 1..Len(seg) : seg[n] # " " /\ \A m \in (n + 1)..Len(seg) : seg[m] = " ")
SameSegment(a, b) ==
  /\ Len(Core(a)) = Len(Core(b))
  /\ \A n \in 1..Len(Core(a)) : SameLetter(Core(a)[n], Core(b)[n])
SamePath(a, b) == Len(a) = Len(b) /\ \A n \in 1..Len(a) : SameSegment(a[n], b[n])

\* C13: two calls of _uid whose segments are equal up to letter case and
\* surrounding blanks return the same identifier
C13_UidOfEqualPaths ==
  (call.f = "_uid" /\ call.done /\ SamePath(call.in[1], call.in[2]))
    => call.out[1] = call.out[2]

\* paths that differ in case and blanks only, and are not the same
C13_RespelledPath ==
  /\ call.f = "_uid"
  /\ call.done
  /\ SamePath(call.in[1], call.in[2])
  /\ call.in[1][2] = <<"a">>
  /\ call.in[2][2] = <<" ", "A">>

(***************************************************************************)
(* The resolvers that take a supplied identifier, each called on its own   *)
(* with the dictionary a new archive starts from                           *)
(***************************************************************************)
SuppliedIds ==
  {NoneId, [k |-> "str", v |-> 0, h |-> <<"x">>],
   [k |-> "uuid", v |-> 3, h |-> <<"p">>], [k |-> "uuid", v |-> 4, h |-> <<"q">>]}
FlowKindsIn == {"None", "ELEMENTARY_FLOW", "PRODUCT_FLOW", "WASTE_FLOW", "BOGUS"}
CategoriesIn == {NoneStr, <<"a", "i", "r">>, <<"W", "a", "s", "t", "e">>, <<"a", "/", "w", "a", "s", "t", "e">>}

ProcessCalls ==
  {[f |-> "_process", out |-> <<>>, done |-> FALSE, prop |-> NoneId,
    in |-> [ProcessIn(name, NoLocationIn, NoneStr, NoDocIn, NoDqIn, <<>>) EXCEPT !.id = u]] :
     name \in {<<"a">>, <<"b">>}, u \in SuppliedIds}
FlowCalls ==
  {[f |-> "_flow", out |-> <<>>, done |-> FALSE, prop |-> prop,
    in |-> [FlowIn(<<"f">>, c) EXCEPT !.id = u, !.flowType = kind]] :
     c \in CategoriesIn, u \in SuppliedIds, kind \in FlowKindsIn, prop \in {MassId, NoneId}}
LocationCalls ==
  {[f |-> "_location", out |-> <<>>, done |-> FALSE, prop |-> NoneId,
    in |-> [loc EXCEPT !.id = u]] : loc \in {LocUDict}, u \in SuppliedIds}
  \cup {[f |-> "_location", out |-> <<>>, done |-> FALSE, prop |-> NoneId, in |-> LocU]}
DqSystemCalls ==
  {[f |-> "_dq_system", out |-> <<>>, done |-> FALSE, prop |-> NoneId,
    in |-> ProcessIn(<<"a">>, NoLocationIn, NoneStr, NoDocIn,
                     [t |-> "dict", id |-> u, name |-> name], <<>>)] :
     name \in {<<"q">>, NoneStr}, u \in SuppliedIds}

InitResolve ==
  /\ Quiet
  /\ pc = "call"
  /\ call \in ProcessCalls \cup FlowCalls \cup LocationCalls \cup DqSystemCalls

\* what a resolver returned: the identifier of the entity, whether it raised,
\* and the dictionary after the call
ProcessCall ==
  /\ call.f = "_process"
  /\ \E r \in {Process(call.in, AddUnitGroups(RootEntityDict))} :
       Returns([id |-> r.p.id, err |-> r.err, s |-> r.s])
FlowCall ==
  /\ call.f = "_flow"
  /\ \E r \in {Flow(call.in, call.prop, AddUnitGroups(RootEntityDict))} :
       Returns([id |-> r.ref.id, err |-> r.err, s |-> r.s])
LocationCall ==
  /\ call.f = "_location"
  /\ \E r \in {Location(call.in, AddUnitGroups(RootEntityDict))} :
       Returns([id |-> r.ref.id, err |-> FALSE, s |-> r.s])
DqSystemCall ==
  /\ call.f = "_dq_system"
  /\ \E r \in {DqSystem(call.in, AddUnitGroups(RootEntityDict), "dqSystem")} :
       Returns([id |-> r.ref, err |-> FALSE, s |-> r.s])

NextResolve == ProcessCall \/ FlowCall \/ LocationCall \/ DqSystemCall
SpecResolve == InitResolve /\ [][NextResolve]_vars

\* the identifier the input of a resolver call supplies
SuppliedId(c) ==
  CASE c.f = "_dq_system" -> c.in.dqSystem.id
    [] c.f = "_location" /\ c.in.t # "dict" -> NoneId
    [] OTHER -> c.in.id
\* a canonical UUID of a version the resolver of that type takes
AcceptedId(f, u) ==
  /\ u.k = "uuid"
  /\ CASE f = "_location" -> u.v = 3
       [] f = "_dq_system" -> u.v = 4
       [] OTHER -> u.v \in {3, 4}

\* C14: the entity a resolver returns carries the supplied identifier if and
\* only if that is a valid UUID of an accepted version; the call does not raise
C14_SuppliedIdKeptIffValid ==
  (call.f \in {"_process", "_flow", "_location", "_dq_system"} /\ call.done
     /\ (call.f = "_flow" => call.prop # NoneId)) =>
    /\ ~call.out.err
    /\ call.out.id = SuppliedId(call) <=> AcceptedId(call.f, SuppliedId(call))

\* "waste" somewhere in the category, in any letter case
SameAnyCase(c, d) ==
  c = d \/ {c, d} \in {{"w", "W"}, {"a", "A"}, {"s", "S"}, {"t", "T"}, {"e", "E"}}
HasWaste(c) ==
  c # NoneStr /\
  \E n \in 1..(Len(c) - 4) :
    \A m \in 1..5 : SameAnyCase(c[n + m - 1], <<"w", "a", "s", "t", "e">>[m])
CreatedFlow(c) == Stored(c.out.s, "Flow", c.out.id)

LocationsIn ==
  {NoLocationIn, [NoLocationIn EXCEPT !.t = "none"], LocU, [LocU EXCEPT !.name = <<" ", "u">>],
   LocUDict, [LocUDict EXCEPT !.lat = <<"2">>]}
ProcessesIn ==
  {ProcessIn(name, loc, desc, NoDocIn, NoDqIn, <<>>) :
     name \in {<<"a">>, <<" ", "A">>, <<"b">>}, loc \in LocationsIn,
     desc \in {<<"o", "l", "d">>, <<"n", "e", "w">>}}

InitProcessUid ==
  /\ Quiet
  /\ pc = "call"
  /\ call \in {[f |-> "_process", in |-> <<a, b>>, out |-> <<>>, done |-> FALSE] :
                 a \in ProcessesIn, b \in ProcessesIn}

ProcessUidCalls ==
  /\ call.f = "_process"
  /\ Returns(<<Process(call.in[1], AddUnitGroups(RootEntityDict)).p.id,
               Process(call.in[2], AddUnitGroups(RootEntityDict)).p.id>>)

SpecProcessUid == InitProcessUid /\ [][ProcessUidCalls]_vars

\* the location code of a description: the code of its location, '' without
CodeOf(d) == IF d.location.t \in {"str", "dict"} THEN d.location.name ELSE EmptyStr
SameKey(a, b) ==
  /\ SameSegment(ValOr(a.category, EmptyStr), ValOr(b.category, EmptyStr))
  /\ SameSegment(CodeOf(a), CodeOf(b))
  /\ SameSegment(a.name, b.name)

\* C15: two descriptions without identifier that agree on category, location
\* code and name up to letter case and surrounding blanks get one identifier
C15_SameKeySameId ==
  (call.f = "_process" /\ call.done /\ SameKey(call.in[1], call.in[2]))
    => call.out[1] = call.out[2]

(***************************************************************************)
(* _uncertainty on its own                                                 *)
(***************************************************************************)
ValuesIn ==
  {NoValue, [t |-> "num", v |-> <<"1">>], [t |-> "nan", v |-> <<>>], [t |-> "other", v |-> <<>>],
   [t |-> "str", v |-> <<"1", ".", "2">>], [t |-> "str", v |-> <<"n", "a", "n">>],
   [t |-> "str", v |-> <<"x">>]}
UncertaintiesIn ==
  {[t |-> "dict", distributionType |-> dt, geomMean |-> gm, geomSd |-> gsd] :
     dt \in {LogNormal, <<"Normal Distribution">>, NoneStr}, gm \in ValuesIn, gsd \in ValuesIn}
  \cup {NoUncertaintyIn, [NoUncertaintyIn EXCEPT !.t = "str"]}

InitUncertainty ==
  /\ Quiet
  /\ pc = "call"
  /\ call \in {[f |-> "_uncertainty", in |-> d, out |-> <<>>, done |-> FALSE] :
                 d \in UncertaintiesIn}

UncertaintyCall ==
  /\ call.f = "_uncertainty"
  /\ Returns(Uncertainty(call.in))

SpecUncertainty == InitUncertainty /\ [][UncertaintyCall]_vars

\* a number, or a str that spells one
IsNumber(x) == x.t = "num" \/ (x.t = "str" /\ IsNumeral(x.v))

\* C17: _uncertainty never raises, and returns a log-normal uncertainty
\* exactly for a record of the log-normal type whose geometric mean and
\* standard deviation are numbers or numeric strings
C17_LogNormalOrNothing ==
  (call.f = "_uncertainty" /\ call.done) =>
    /\ ~call.out.err
    /\ call.out.u.t = "log-normal"
         <=> (/\ call.in.t = "dict"
              /\ call.in.distributionType = LogNormal
              /\ IsNumber(call.in.geomMean)
              /\ IsNumber(call.in.geomSd))

\* C19: write() does not end at an entry of the mapping that is not a
\* mapping: a call that raised was at an entry that is one
C19_NonMappingSkipped ==
  (pc = "idle" /\ prev.ended = "raised" /\ processes # <<>>) => processes[i].d.t = "dict"

\* C20: a call on a path whose file is there and is no complete zip never
\* gets to build or save: it ends as unreadable and leaves the file as it was
C20_CorruptArchiveUntouched ==
  (nwrites > 0 /\ pre.exists /\ ~pre.complete) =>
    /\ pc = "idle"
    /\ prev.ended = "unreadable"
    /\ archive = pre

\* the last of the calls on a corrupt archive, with entries to build
C20_FailedOnCorrupt ==
  /\ pc = "idle"
  /\ prev.ended = "unreadable"
  /\ nwrites = MaxWrites
  /\ Len(processes) = MaxBatch
  /\ archive = ArchiveCorrupt

(***************************************************************************)
(* write() as a whole                                                      *)
(***************************************************************************)
ObjsOf(arch, k) == [n \in 1..Len(arch.docs[k]) |-> arch.docs[k][n].obj]

\* C21: a call on a path without archive is not stopped by the missing file;
\* _save_to_json takes the existing data to be empty, and after the call the
\* archive holds, per type, the entities of the dictionary the build ended
\* with (one per identifier), the unit groups and flow properties among them
C21_NoArchiveStartsEmpty ==
  (nwrites > 0 /\ ~pre.exists) =>
    /\ pc = "idle" => prev.ended # "unreadable"
    /\ pc = "merge" => c_data = RootEntityDict
    /\ Saved =>
         /\ \A k \in Types :
              /\ ObjsOf(archive, k) = Collapsed(handed[k].objs)
              /\ \A n \in 1..Len(archive.docs[k]) : archive.docs[k][n].ok
         /\ Range(FedUnitGroups) \subseteq Range(ObjsOf(archive, "UnitGroup"))
         /\ Range(FedFlowProperties) \subseteq Range(ObjsOf(archive, "FlowProperty"))

\* a full batch saved to a new path, from a dictionary that lists a Flow twice
C21_SavedToNewPath ==
  /\ Saved
  /\ ~pre.exists
  /\ Len(processes) = MaxBatch
  /\ ~NoDup(handed["Flow"].ids)
  /\ Len(archive.docs["Process"]) >= 2

(***************************************************************************)
(* write(processes, file_path, to_save) from its loop on, for descriptions *)
(* whose exchanges lack a flow, a unit or a stored flow property           *)
(***************************************************************************)
\* a flow that carries the identifier of the archived one
FlowFId == [FlowF EXCEPT !.id = LegacyFlow.id]

\* the last flagged exchange has no flow
DescNoFlow ==
  ProcessIn(<<"e">>, NoLocationIn, NoneStr, NoDocIn, NoDqIn,
            <<ExchangeIn(FlowF, TRUE, NoProcessIn), ExchangeIn(NoFlowIn, TRUE, NoProcessIn)>>)
\* the flagged exchange names a unit that olca_schema.units does not know, for
\* a flow that its identifier finds once it is stored
DescNoUnit ==
  ProcessIn(<<"h">>, NoLocationIn, NoneStr, NoDocIn, NoDqIn,
            <<ExchangeIn(FlowFId, FALSE, NoProcessIn),
              [ExchangeIn(FlowFId, TRUE, NoProcessIn) EXCEPT !.unit = <<"x">>]>>)
\* the flagged exchange names a unit whose flow property is not stored, and
\* the last exchange an unknown unit for a flow that is not stored
DescEnergy ==
  ProcessIn(<<"j">>, NoLocationIn, NoneStr, NoDocIn, NoDqIn,
            <<ExchangeIn(FlowFId, FALSE, NoProcessIn),
              [ExchangeIn(FlowFId, TRUE, NoProcessIn) EXCEPT !.unit = <<"M", "J">>],
              [ExchangeIn(FlowG, FALSE, NoProcessIn) EXCEPT !.unit = <<"x">>]>>)
BuildDescs == <<DescA, DescA2, DescNoFlow, DescNoUnit, DescEnergy>>
BuildBatches ==
  {q \in UNION {SeqsOfLen(1..Len(BuildDescs), n) : n \in 1..MaxBatch} : Injective(q)}

\* the state of write() when its loop starts
InitBuild ==
  /\ archive \in {NoArchive, ArchiveClean}
  /\ pc = "build"
  /\ \E q \in BuildBatches : processes = [n \in 1..Len(q) |-> Entry(BuildDescs[q[n]])]
  /\ i = 1
  /\ spec_map = InitRootEntities(archive)
  /\ c_data = RootEntityDict
  /\ handed = RootEntityDict
  /\ w = 1
  /\ nwrites = 1
  /\ pre = archive
  /\ prev = NoPrev
  /\ again = FALSE
  /\ readback = RootEntityDict
  /\ xl = NoXl
  /\ kept = {}
  /\ call \in {[f |-> "write", to_save |-> b, done |-> FALSE] : b \in BOOLEAN}

\* to_save is False: write() returns the mapping after its loop
ReturnUnsaved ==
  /\ pc = "save"
  /\ ~ToSave
  /\ pc' = "idle"
  /\ prev' = [batch |-> [n \in 1..Len(processes) |-> processes[n].d], ended |-> "unsaved",
               saved |-> prev.saved]
  /\ i' = 1
  /\ UNCHANGED <<archive, processes, spec_map, c_data, handed, w, nwrites, pre, again,
                 readback, xl, kept, call>>

NextBuild ==
  \/ BuildStep
  \/ BuildRaises
  \/ ReturnUnsaved
  \/ SaveReadFound
  \/ SaveReadMissing
  \/ SaveRemove
  \/ SaveMerge
  \/ SaveOpen
  \/ SaveWriteEntity
  \/ SaveClose

SpecBuild == InitBuild /\ [][NextBuild]_vars

\* the dictionary the loop of write() ended with
Built == IF prev.ended = "saved" THEN handed ELSE spec_map
Returned == pc = "idle" /\ prev.ended \in {"saved", "unsaved"}
\* the Process stored for an entry, and its quantitative reference
StoredFor(entry) == Stored(Built, "Process", entry.uuid)
RefOf(entry) == FindRefExchange(StoredFor(entry))

\* C22 as stated: after write() every entry carries the identifier of the
\* Process stored for it and, exactly when that Process has a quantitative
\* reference, the flow and the unit name of that exchange
C22_AnnotatedExactlyWithReference ==
  Returned =>
    \A n \in 1..Len(processes) :
      /\ InIds(Built, "Process", processes[n].uuid)
      /\ RefOf(processes[n]) = NoneEx =>
           processes[n].q_ref = NoneRef /\ processes[n].q_unit = NoneStr
      /\ RefOf(processes[n]) # NoneEx =>
           /\ processes[n].q_ref # NoneRef /\ processes[n].q_ref = RefOf(processes[n]).flow
           /\ processes[n].q_unit # NoneStr /\ processes[n].q_unit = RefOf(processes[n]).unit

\* C22, amended: after write() every entry carries the identifier of the
\* Process stored for it; it carries the flow of that Process's quantitative
\* reference exactly when there is one and it has a flow, and the unit name
\* exactly when that exchange has a flow and a unit
C22_AnnotatedWithWhatResolved ==
  Returned =>
    \A n \in 1..Len(processes) :
      /\ InIds(Built, "Process", processes[n].uuid)
      /\ processes[n].q_ref =
           IF RefOf(processes[n]) = NoneEx THEN NoneRef ELSE RefOf(processes[n]).flow
      /\ processes[n].q_unit =
           IF RefOf(processes[n]) = NoneEx \/ RefOf(processes[n]).flow = NoneRef THEN NoneStr
           ELSE RefOf(processes[n]).unit

\* a Process built from the first entry and reused for the second, the flow
\* and unit of its reference on both
C22_ReusedWithReference ==
  /\ Returned
  /\ Len(processes) = MaxBatch
  /\ processes[1].uuid = processes[2].uuid
  /\ processes[1].d # processes[2].d
  /\ RefOf(processes[2]) # NoneEx
  /\ processes[2].q_ref = RefOf(processes[2]).flow
  /\ processes[2].q_unit = <<"k", "g">>

\* C23: a call with to_save=False leaves the file at file_path as it was at
\* every step, and returns the mapping with every entry annotated
C23_UnsavedLeavesArchive ==
  (call.f = "write" /\ ~call.to_save) =>
    /\ archive = pre
    /\ pc \notin {"remove", "merge", "open", "write"}
    /\ Returned =>
         /\ prev.ended = "unsaved"
         /\ \A n \in 1..Len(processes) :
              processes[n].uuid # NoneId /\ InIds(spec_map, "Process", processes[n].uuid)

\* a full batch returned without saving, on a path without archive
C23_ReturnedUnsaved ==
  /\ call.f = "write" /\ ~call.to_save
  /\ Returned
  /\ Len(processes) = MaxBatch
  /\ processes[MaxBatch].q_ref # NoneRef
  /\ ~archive.exists

IsPrefix(a, b) == Len(a) <= Len(b) /\ SubSeq(b, 1, Len(a)) = a

\* C24: from the start of the loop of write() until the merge starts, a step
\* leaves every ids list and every objs list of the dictionary as it was or
\* longer at its end: what is stored stays stored, at its place, the same entity
C24_RegistryOnlyGrows ==
  [][(pc \in {"build", "save"} /\ pc' \in {"build", "save", "remove", "merge"}) =>
       \A k \in Types :
         /\ IsPrefix(spec_map[k].ids, spec_map'[k].ids)
         /\ IsPrefix(spec_map[k].objs, spec_map'[k].objs)]_vars

\* the loop is over for a full batch on an existing archive, and it has stored
\* a Location, a Source and a Process beyond what the archive held
C24_GrownBeyondArchive ==
  /\ pc = "save"
  /\ pre.exists
  /\ Len(processes) = MaxBatch
  /\ spec_map["Location"].ids # <<>>
  /\ spec_map["Source"].ids # <<>>
  /\ Len(spec_map["Process"].ids) > Len(InitRootEntities(pre)["Process"].ids) + 1

(***************************************************************************)
(* _process on a description, the append of write(), and _process on a     *)
(* second description                                                      *)
(***************************************************************************)
FirstsIn == {DescA, DescA2, DescB, DescNoFlow}
SecondsIn ==
  {[ProcessIn(name, loc, NoneStr, doc, dq, exs) EXCEPT !.id = u] :
     name \in {<<"a">>, <<" ", "A">>, <<"b">>},
     loc \in {LocU, LocUDict},
     doc \in {NoDocIn, DocFull},
     dq \in {NoDqIn, DqBadId},
     exs \in {<<>>, <<ExchangeIn(FlowG, TRUE, NoProcessIn)>>},
     u \in {NoneId, ProcessUid(DescNoFlow)}}

InitReuse ==
  /\ Quiet
  /\ pc = "call"
  /\ call \in {[f |-> "_process again", in |-> <<a, b>>, out |-> <<>>, done |-> FALSE] :
                 a \in FirstsIn, b \in SecondsIn}

\* the lists of a dictionary, type by type
Listed(s) == [k \in Types |-> [ids |-> s[k].ids, objs |-> s[k].objs]]

\* out: the dictionary before the second call, and what the second call returned
ReuseCall ==
  /\ call.f = "_process again"
  /\ \E r \in {Process(call.in[1], AddUnitGroups(RootEntityDict))} :
       \E b \in {AppendProcess(r.s, r)} :
         \E t \in {Process(call.in[2], b)} :
           Returns([before |-> Listed(b), p |-> t.p, s |-> Listed(t.s), e |-> t.e, err |-> t.err])

SpecReuse == InitReuse /\ [][ReuseCall]_vars

\* C25: _process on a description whose identifier is stored returns the
\* stored Process, its exchanges as they were, and the dictionary as it was
C25_StoredProcessReused ==
  (call.f = "_process again" /\ call.done
     /\ InIds(call.out.before, "Process", ProcessUid(call.in[2]))) =>
    /\ ~call.out.err
    /\ call.out.s = call.out.before
    /\ call.out.p = Stored(call.out.before, "Process", ProcessUid(call.in[2]))
    /\ call.out.p.exchanges
         = Stored(call.out.before, "Process", ProcessUid(call.in[2])).exchanges

\* the second description resolves to the stored identifier and has another
\* location, a documentation, a data quality system and an exchange of its own
C25_SecondDiffers ==
  /\ call.f = "_process again"
  /\ call.done
  /\ call.in[1] = DescA
  /\ call.in[2].id = NoneId
  /\ call.in[2].name = <<" ", "A">>
  /\ call.in[2].doc = DocFull
  /\ call.in[2].dqSystem = DqBadId
  /\ call.in[2].exchanges # <<>>
  /\ InIds(call.out.before, "Process", ProcessUid(call.in[2]))
  /\ Len(call.out.p.exchanges) = 2

(***************************************************************************)
(* _read_jsonld(json_file, root_dict) in full mode, into a dictionary that *)
(* holds entities already                                                  *)
(***************************************************************************)
\* number of Process documents in the archive that is read
MaxDocs == 3

\* the archived Process as the dictionary holds it, from another build
MineProcess == [LegacyProcess EXCEPT !.description = <<"m", "i", "n", "e">>]
ProcessDocs ==
  {Doc(LegacyProcess, TRUE), Doc(LegacyProcess, FALSE), Doc(LegacyOther, TRUE),
   Doc(LegacyOther, FALSE)}
ReadArchives ==
  {[ArchiveClean EXCEPT !.docs["Process"] = q] : q \in ListsUpTo(ProcessDocs, MaxDocs)}
ReadInto ==
  {RootEntityDict, AddUnitGroups(RootEntityDict),
   Append2(RootEntityDict, "Process", MineProcess.id, MineProcess),
   Append2(AddUnitGroups(RootEntityDict), "Process", LegacyOther.id, LegacyOther)}

InitRead ==
  /\ archive \in ReadArchives
  /\ pc = "reading"
  /\ processes = <<>>
  /\ i = 1
  /\ spec_map \in ReadInto
  /\ c_data = RootEntityDict
  /\ handed = RootEntityDict
  /\ w = 1
  /\ nwrites = 0
  /\ pre = archive
  /\ prev = NoPrev
  /\ again = FALSE
  /\ readback = RootEntityDict
  /\ xl = NoXl
  /\ kept = {}
  /\ call = NoCall

\* _read_jsonld(json_file, root_dict): root_dict is spec_map, the result readback
ReadIntoDict ==
  /\ pc = "reading"
  /\ ~ReadRaises(archive)
  /\ readback' = ReadJsonld(archive, spec_map)
  /\ pc' = "was read"
  /\ UNCHANGED <<archive, processes, i, spec_map, c_data, handed, w, nwrites, pre, prev,
                 again, xl, kept, call>>

SpecRead == InitRead /\ [][ReadIntoDict]_vars

\* the documents of a type that load: the zip gives the last entry of a name
Loads(arch, k, rid) ==
  \E n \in 1..Len(arch.docs[k]) :
    /\ arch.docs[k][n].id = rid /\ arch.docs[k][n].ok
    /\ \A m \in (n + 1)..Len(arch.docs[k]) : arch.docs[k][m].id # rid
Added(k) == SubSeq(readback[k].ids, Len(spec_map[k].ids) + 1, Len(readback[k].ids))

\* C26: after _read_jsonld in full mode every list of the dictionary starts
\* with what it held; behind that it holds, once each and with its entity,
\* the identifiers of the archive that it did not hold and whose document loads
C26_ReadAddsMissingLoadable ==
  pc = "was read" =>
    \A k \in Types :
      /\ IsPrefix(spec_map[k].ids, readback[k].ids)
      /\ IsPrefix(spec_map[k].objs, readback[k].objs)
      /\ Len(readback[k].ids) - Len(spec_map[k].ids)
           = Len(readback[k].objs) - Len(spec_map[k].objs)
      /\ NoDup(Added(k))
      /\ Range(Added(k))
           = {rid \in Range(IdsOf(archive, k)) :
                rid \notin Range(spec_map[k].ids) /\ Loads(archive, k, rid)}
      /\ \A n \in 1..Len(Added(k)) :
           \E m \in 1..Len(archive.docs[k]) :
             /\ archive.docs[k][m].id = Added(k)[n] /\ archive.docs[k][m].ok
             /\ readback[k].objs[Len(spec_map[k].objs) + n] = archive.docs[k][m].obj

\* a Process that does not load comes first, one that loads after it, and a
\* third that the dictionary held already; the unit groups are read after them
C26_ReadPastFailure ==
  /\ pc = "was read"
  /\ Len(archive.docs["Process"]) = MaxDocs
  /\ ~archive.docs["Process"][1].ok
  /\ archive.docs["Process"][1].id = LegacyOther.id
  /\ archive.docs["Process"][2].id = LegacyProcess.id
  /\ archive.docs["Process"][MaxDocs].id = LegacyProcess.id
  /\ spec_map["Process"].ids = <<>>
  /\ readback["Process"].ids = <<LegacyProcess.id>>
  /\ readback["UnitGroup"].ids # <<>>

\* a documentation record without one of its four actor names
LacksActor(d) ==
  /\ d.t = "dict"
  /\ d.doc.t = "dict"
  /\ \E n \in 1..Len(d.doc.actors) : d.doc.actors[n] \in {NoneStr, EmptyStr}

\* C27: a documentation record that lacks an actor name does not stop the
\* build: no call of write() ends with an exception at an entry that has one
C27_MissingActorNoError ==
  (pc = "idle" /\ prev.ended = "raised" /\ processes # <<>>) => ~LacksActor(processes[i].d)

\* an exchange entry whose unit gives no flow property of the dictionary a
\* new archive starts from
NoPropertyFor(e) ==
  e.t = "dict" /\ FlowProperty(ValOr(e.unit, <<"k", "g">>), AddUnitGroups(RootEntityDict)) = NoneId
HasNoProperty(d) ==
  d.t = "dict" /\ \E n \in 1..Len(d.exchanges) : NoPropertyFor(d.exchanges[n])

\* C28: an exchange whose unit has no unit or flow property mapping, or whose
\* flow property is not stored, does not stop the build, and the Process
\* stored for its entry holds one exchange for each entry of its list
C28_UnmappedUnitKept ==
  /\ (pc = "idle" /\ prev.ended = "raised") => ~HasNoProperty(processes[i].d)
  /\ Returned =>
       \A n \in 1..Len(processes) :
         (HasNoProperty(processes[n].d)
            /\ \A m \in 1..(n - 1) : processes[m].uuid # processes[n].uuid
            /\ <<"Process", processes[n].uuid>> \notin IdPairs(pre))
         => Len(StoredFor(processes[n]).exchanges) = Len(processes[n].d.exchanges)

\* a reference that is empty, or names an entity stored under its type
Resolves(s, k, uid) == uid = NoneId \/ InIds(s, k, uid)
ResolvesAll(s, k, uids) == \A n \in 1..Len(uids) : Resolves(s, k, uids[n])
\* the references a Process holds other than to providers
OwnReferencesResolve(s, p) ==
  /\ Resolves(s, "Location", p.location)
  /\ ResolvesAll(s, "Actor", p.doc.actors)
  /\ Resolves(s, "Source", p.doc.publication)
  /\ ResolvesAll(s, "Source", p.doc.sources)
  /\ Resolves(s, "DQSystem", p.dq_system)
  /\ Resolves(s, "DQSystem", p.exchange_dq_system)
  /\ \A n \in 1..Len(p.exchanges) : Resolves(s, "Flow", p.exchanges[n].flow.id)

\* C29: after the loop of write() every reference of every Process of the
\* dictionary names an entity the dictionary holds under the matching type,
\* the default providers of its exchanges included
C29_ReferencesResolve ==
  pc = "save" =>
    \A n \in 1..Len(spec_map["Process"].objs) :
      /\ OwnReferencesResolve(spec_map, spec_map["Process"].objs[n])
      /\ \A m \in 1..Len(spec_map["Process"].objs[n].exchanges) :
           Resolves(spec_map, "Process", spec_map["Process"].objs[n].exchanges[m].provider)

(***************************************************************************)
(* _location on two locations, in one build or in two builds with the      *)
(* archive of the first between them                                       *)
(***************************************************************************)
LocW == [LocU EXCEPT !.name = <<"w">>]
LocationPairsIn ==
  {NoLocationIn, [NoLocationIn EXCEPT !.t = "none"], LocU, LocW, [LocU EXCEPT !.name = EmptyStr],
   LocUDict, [LocUDict EXCEPT !.name = NoneStr], [LocUDict EXCEPT !.name = EmptyStr],
   [LocUDict EXCEPT !.id = [k |-> "str", v |-> 0, h |-> <<"x">>]],
   [LocUDict EXCEPT !.id = [k |-> "uuid", v |-> 4, h |-> <<"q">>]],
   [LocUDict EXCEPT !.id = [k |-> "uuid", v |-> 3, h |-> <<"p">>]]}

\* the archive _save_to_json leaves at a path that had none
SavedAs(e_dict) ==
  [exists |-> TRUE, complete |-> TRUE,
   docs |-> [k \in Types |->
               [n \in 1..Len(UpdateData(RootEntityDict, e_dict)[k].objs) |->
                  WrittenDoc(UpdateData(RootEntityDict, e_dict)[k].objs[n])]]]

InitLocation ==
  /\ Quiet
  /\ pc = "call"
  /\ call \in {[f |-> "_location twice", in |-> <<a, b>>, across |-> x, out |-> <<>>,
                done |-> FALSE] :
                 a \in LocationPairsIn, b \in LocationPairsIn, x \in BOOLEAN}

\* out: the two references, and the Location lists before and after the second call
LocationTwice ==
  /\ call.f = "_location twice"
  /\ \E a \in {Location(call.in[1], AddUnitGroups(RootEntityDict))} :
       \E s1 \in {IF call.across THEN Listed(ReadJsonld(SavedAs(a.s), RootEntityDict))
                  ELSE Listed(a.s)} :
         \E b \in {Location(call.in[2], s1)} :
           Returns([ref |-> <<a.ref, b.ref>>, between |-> s1["Location"],
                    after |-> b.s["Location"]])

SpecLocation == InitLocation /\ [][LocationTwice]_vars

HasCode(loc) == loc.t \in {"str", "dict"} /\ loc.name \notin {NoneStr, EmptyStr}
\* a bare string, or a record without an identifier that _location takes
DerivesId(loc) == loc.t = "str" \/ ~(loc.id.k = "uuid" /\ loc.id.v = 3)

\* C30: two locations with the same code, bare string or record without valid
\* identifier, get the identifier derived from the code and one Location in
\* the dictionary, in one build and in two; a location without code gets no
\* reference and adds no Location
C30_OneLocationPerCode ==
  (call.f = "_location twice" /\ call.done) =>
    /\ ~HasCode(call.in[1]) => call.out.ref[1] = NoneRef /\ call.out.between.ids = <<>>
    /\ ~HasCode(call.in[2]) => call.out.ref[2] = NoneRef /\ call.out.after = call.out.between
    /\ (/\ HasCode(call.in[1]) /\ HasCode(call.in[2])
        /\ DerivesId(call.in[1]) /\ DerivesId(call.in[2])
        /\ call.in[1].name = call.in[2].name) =>
         /\ call.out.ref[1].id = Uid(<<<<"modeltype.location">>, call.in[1].name>>)
         /\ call.out.ref[2].id = call.out.ref[1].id
         /\ call.out.after.ids = <<call.out.ref[1].id>>
         /\ Len(call.out.after.objs) = 1

\* a bare string in the first build, a record of the same name with an
\* identifier that is no UUID in the second
C30_StringThenRecord ==
  /\ call.f = "_location twice"
  /\ call.done
  /\ call.across
  /\ call.in[1] = LocU
  /\ call.in[2].t = "dict"
  /\ call.in[2].id.k = "str"
  /\ call.out.ref[2].id = call.out.ref[1].id
  /\ Len(call.out.after.ids) = 1

====
